---- MODULE Spec2Model ----
(***************************************************************************)
(* Verification model of the kubetail cluster agent core:                  *)
(*   - stream_util.rs        wrap_with_shutdown                            *)
(*   - authorizer.rs         Authorizer (subject-access-review cache)      *)
(*   - util/offset.rs        find_nearest_offset (timestamp index)         *)
(*   - stream_forward.rs / stream_backward.rs   record streamers           *)
(*   - log_metadata_watcher.rs                  metadata watcher           *)
(* Every subsystem has its own specification (SpecWrap, SpecAuth, ...);    *)
(* the variables of the other subsystems stay at their initial values.     *)
(***************************************************************************)
EXTENDS Integers, Sequences, FiniteSets, TLC

VARIABLES
    \* ---- stream_util.rs: wrap_with_shutdown ----
    rx,             \* inner mpsc channel: items sent and not yet received
    rx_closed,      \* every inner sender has been dropped
    inner_hist,     \* history: every item ever sent on the inner channel
    term_rx,        \* the broadcast receiver holds a shutdown signal
    term_at_open,   \* history: the signal was sent before the task took an inner Err / None
    both_ready,     \* history: select! was polled with the signal and an inner event both ready
    wrap_pc,        \* position of the spawned task
    wrap_item,      \* item the task is sending on out_tx
    out_tx,         \* outer mpsc channel: items sent and not yet received
    out_closed,     \* out_tx has been dropped (the task has ended)
    out_rx_dropped, \* the client dropped the outer stream
    out,            \* what the client has received from the outer stream
    \* ---- authorizer.rs: Authorizer ----
    now,            \* wall clock, in seconds
    authorizers,    \* the Authorizer built by each request so far: token and auth_cache
    sar_hist,       \* history: every subject-access-review sent to the control plane
    auth_last,      \* history: the last is_authorized call and what it returned
    \* ---- util/offset.rs: find_nearest_offset ----
    off_file,       \* the bytes of the file
    off_target,     \* target_time
    off_mode,       \* FindMode
    off_min,        \* min_offset
    off_left,       \* left
    off_right,      \* right
    off_result,     \* result: NoOffset or an Offset
    off_pc,         \* "loop" while the search runs, "done" once it has returned
    \* ---- stream_forward.rs / stream_backward.rs ----
    rpc,            \* which RPC runs: "StreamForward", "StreamBackward" ("none": no stream)
    st_file,        \* the bytes of the log file
    appends,        \* lines the container runtime has appended since the start
    req_start,      \* start_time (NoTime when unset)
    req_stop,       \* stop_time (NoTime when unset)
    req_follow,     \* follow_from: "Noop", "Default", "End"
    ctx,            \* the stream's cancellation token is cancelled
    cancelled_at,   \* history: position of the task when the token was cancelled
    fwd_pc,         \* position of the forward streaming task
    fwd_max_offset, \* max_offset: length of the file when the stream opened it
    fwd_pos,        \* offset of the initial-scan reader in the file
    fwd_limit,      \* end of file.take(take_length) as an offset, NoLimit without take
    fwd_buf,        \* searcher buffer: bytes read that are not yet a complete line
    fwd_cut,        \* history: TermReader returned 0 while bytes were left to read
    fwd_tail_pos,   \* offset of the tail reader (log_file_reader)
    fwd_tail_start, \* history: offset at which the tail reader was opened
    fwd_notify,     \* output_rx: notify events not yet received
    fwd_out,        \* items sent on the forward sender
    fwd_stop,       \* history: why the forward task ended
    bwd_pc,         \* position of the backward streaming task
    bwd_start,      \* start_pos
    bwd_end,        \* end_pos
    bwd_pos,        \* bytes the searcher has read from the reverse reader
    bwd_buf,        \* searcher buffer of the backward search
    bwd_out,        \* items sent on the backward sender
    bwd_stop,       \* history: why the backward task ended
    \* ---- log_metadata_watcher.rs: LogMetadataWatcher ----
    w_pc,           \* position of the watcher task
    w_namespaces,   \* namespaces of the Watch request
    w_dir,          \* the log directory: size of each file, Absent when missing
    w_watched,      \* the paths on the notify watch list
    w_pending,      \* notify events the debouncer holds for its next batch
    internal_rx,    \* internal channel: batches sent and not yet received
    log_metadata_tx, \* items sent on the watcher's outbound channel
    w_ctx,          \* the watcher's cancellation token is cancelled
    w_ops,          \* history: the file of every file-system operation, and whether notify reported it
    \* ---- util/reader.rs: LogTrimmerReader ----
    tr_pc,          \* "refill", "discard" or "eof" ("idle": no reader)
    tr_source,      \* the bytes of the wrapped reader
    tr_limit,       \* truncate_at_bytes
    tr_read,        \* bytes the BufReader has read from the wrapped reader
    tr_input,       \* input: the BufReader's buffered, unconsumed bytes
    tr_line,        \* locals of refill_buffer_cri for the line being built
    internal_buf,   \* internal_buf
    tr_out,         \* the buffers refill_buffer_cri has returned, in order
    tr_fills,       \* history: for each returned buffer, the fill_buf calls it took
    \* ---- util/reader.rs: ReverseLineReader ----
    rv_pc,          \* "lines" while next_line is called, "eof" once it returned None ("idle": no reader)
    rv_file,        \* the bytes of the wrapped file
    rv_min,         \* min_pos
    rv_max,         \* history: max_pos as given to new
    rv,             \* pos, buf, buf_end and line_buf of the reader
    rv_out,         \* the lines next_line has returned, in order
    \* ---- log_metadata_watcher.rs: deduplicate_metadata_events ----
    dd_pc,          \* "batch": not yet applied, "once", "twice" ("idle": no batch)
    dd_in,          \* metadata_events: the batch given to the first application
    dd_out,         \* what the first application returned
    dd_out2,        \* what the application to dd_out returned
    \* ---- log_metadata.rs: LogMetadataImpl::list ----
    ls_pc,          \* "start", "scan" or "done" ("idle": no request)
    ls_dir,         \* the log directory: size of each file, NoDirectory when there is none
    ls_req,         \* request.namespaces
    ls_namespaces,  \* namespaces: the request's without its empty strings
    ls_todo,        \* the entries ReadDirStream has still to yield
    ls_items,       \* metadata_items
    ls_status,      \* code of the response, "" while the handler runs
    ls_seen,        \* history: for each file, what get_file_info saw when the scan came to it
    \* ---- util/reader.rs: TermReader ----
    tm_pc,          \* "open" ("idle": no reader)
    tm_src,         \* the bytes of the inner reader
    tm_pos,         \* position of the inner reader
    tm_ctx,         \* the token is cancelled
    tm_log,         \* history: the read calls, with what the inner reader returned
    \* ---- cluster_agent/log_records.rs: LogRecordsImpl ----
    svc_cancelled,  \* the cancellation tokens that have been cancelled (RootToken: self.ctx)
    svc_streams,    \* the streaming tasks the handlers have spawned
    svc_last,       \* history: the last handler call and its outcome
    svc_shutdown    \* history: the server has been told to shut down

wrapVars == <<rx, rx_closed, inner_hist, term_rx, term_at_open, both_ready, wrap_pc,
              wrap_item, out_tx, out_closed, out_rx_dropped, out>>

authVars == <<now, authorizers, sar_hist, auth_last>>

offVars == <<off_file, off_target, off_mode, off_min, off_left, off_right,
             off_result, off_pc>>

reqVars == <<rpc, req_start, req_stop, req_follow>>

fwdVars == <<fwd_pc, fwd_max_offset, fwd_pos, fwd_limit, fwd_buf, fwd_cut, fwd_tail_pos,
             fwd_tail_start, fwd_notify, fwd_out, fwd_stop>>

bwdVars == <<bwd_pc, bwd_start, bwd_end, bwd_pos, bwd_buf, bwd_out, bwd_stop>>

streamVars == <<reqVars, st_file, appends, ctx, cancelled_at, fwdVars, bwdVars>>

watchVars == <<w_pc, w_namespaces, w_dir, w_watched, w_pending, internal_rx,
               log_metadata_tx, w_ctx, w_ops>>

trimVars == <<tr_pc, tr_source, tr_limit, tr_read, tr_input, tr_line,
              internal_buf, tr_out, tr_fills>>

revVars == <<rv_pc, rv_file, rv_min, rv_max, rv, rv_out>>

dedupVars == <<dd_pc, dd_in, dd_out, dd_out2>>

listVars == <<ls_pc, ls_dir, ls_req, ls_namespaces, ls_todo, ls_items, ls_status,
              ls_seen>>

termVars == <<tm_pc, tm_src, tm_pos, tm_ctx, tm_log>>

svcVars == <<svc_cancelled, svc_streams, svc_last, svc_shutdown>>

vars == <<wrapVars, authVars, offVars, streamVars, watchVars, trimVars, revVars,
         dedupVars, listVars,
                   termVars,
                   svcVars>>

\* The variables each subsystem leaves alone.
otherThanWrap == <<authVars, offVars, streamVars, watchVars, trimVars, revVars,
                   dedupVars, listVars,
                   termVars,
                   svcVars>>
otherThanAuth == <<wrapVars, offVars, streamVars, watchVars, trimVars, revVars,
                   dedupVars, listVars,
                   termVars,
                   svcVars>>
otherThanOff == <<wrapVars, authVars, streamVars, watchVars, trimVars, revVars,
                   dedupVars, listVars,
                   termVars,
                   svcVars>>
otherThanStream == <<wrapVars, authVars, offVars, watchVars, trimVars, revVars,
                   dedupVars, listVars,
                   termVars,
                   svcVars>>
otherThanWatch == <<wrapVars, authVars, offVars, streamVars, trimVars, revVars,
                   dedupVars, listVars,
                   termVars,
                   svcVars>>
otherThanTrim == <<wrapVars, authVars, offVars, streamVars, watchVars, revVars,
                   dedupVars, listVars,
                   termVars,
                   svcVars>>
otherThanRev == <<wrapVars, authVars, offVars, streamVars, watchVars, trimVars,
                   dedupVars, listVars,
                   termVars,
                   svcVars>>
otherThanDedup == <<wrapVars, authVars, offVars, streamVars, watchVars, trimVars,
                   revVars, listVars,
                   termVars,
                   svcVars>>
otherThanList == <<wrapVars, authVars, offVars, streamVars, watchVars, trimVars,
                   revVars, dedupVars,
                   termVars,
                   svcVars>>
otherThanTerm == <<wrapVars, authVars, offVars, streamVars, watchVars, trimVars, revVars, dedupVars, listVars,
                   svcVars>>
otherThanSvc == <<wrapVars, authVars, offVars, streamVars, watchVars, trimVars, revVars, dedupVars, listVars, termVars>>

----------------------------------------------------------------------------
(* Generic helpers *)

Last(s) == s[Len(s)]

RECURSIVE Reverse(_)
Reverse(s) == IF s = <<>> THEN <<>> ELSE Append(Reverse(Tail(s)), Head(s))

IsPrefix(s, t) == Len(s) <= Len(t) /\ SubSeq(t, 1, Len(s)) = s

Min2(a, b) == IF a <= b THEN a ELSE b

----------------------------------------------------------------------------
(* stream_util.rs: wrap_with_shutdown                                      *)

\* Bounds of the wrap model.
MaxInner == 3       \* items the producer sends on the inner channel
OutCap == 2         \* capacity of the outer channel (100 in the source)
InnerCap == 2       \* capacity of the inner channel

OkItem(v) == [ok |-> TRUE, v |-> v, code |-> "OK"]
ErrItem(c) == [ok |-> FALSE, v |-> 0, code |-> c]
NoItem == [ok |-> FALSE, v |-> 0, code |-> "NONE"]

\* Status::new(tonic::Code::Unavailable, "server shutting down")
ShutdownStatusMutant == ErrItem("ABORTED")
ShutdownStatus == ErrItem("UNAVAILABLE")

InnerItems == {OkItem(1), OkItem(2), ErrItem("ABORTED")}

InitWrap ==
    /\ rx = <<>>
    /\ rx_closed = FALSE
    /\ inner_hist = <<>>
    /\ term_rx = FALSE
    /\ term_at_open = FALSE
    /\ both_ready = FALSE
    /\ wrap_pc = "select"
    /\ wrap_item = NoItem
    /\ out_tx = <<>>
    /\ out_closed = FALSE
    /\ out_rx_dropped = FALSE
    /\ out = <<>>

\* A producer sends an item on the inner channel (tx.send(..)).
InnerSend ==
    /\ ~rx_closed
    /\ Len(inner_hist) < MaxInner
    /\ Len(rx) < InnerCap
    /\ \E it \in InnerItems :
          /\ rx' = Append(rx, it)
          /\ inner_hist' = Append(inner_hist, it)
    /\ UNCHANGED <<rx_closed, term_rx, term_at_open, both_ready, wrap_pc, wrap_item,
                   out_tx, out_closed, out_rx_dropped, out>>
    /\ UNCHANGED otherThanWrap

\* The last inner sender is dropped (drop(tx)).
InnerClose ==
    /\ ~rx_closed
    /\ rx_closed' = TRUE
    /\ UNCHANGED <<rx, inner_hist, term_rx, term_at_open, both_ready, wrap_pc, wrap_item,
                   out_tx, out_closed, out_rx_dropped, out>>
    /\ UNCHANGED otherThanWrap

\* term_tx.send(()): the shutdown signal is broadcast.
ShutdownSignal ==
    /\ ~term_rx
    /\ term_rx' = TRUE
    /\ term_at_open' = (wrap_pc \in {"select", "send_ok"})
    /\ UNCHANGED <<both_ready, rx, rx_closed, inner_hist, wrap_pc, wrap_item,
                   out_tx, out_closed, out_rx_dropped, out>>
    /\ UNCHANGED otherThanWrap

\* The shutdown signal and an inner event (item, error or end of stream) are
\* both ready.
BothReady == term_rx /\ (rx # <<>> \/ rx_closed)

\* select! without `biased;`: the branches are polled in a random order.
second_branch_polledMutant == TRUE

\* select! { biased; .. }: the branches are polled in the order written, the
\* second one only when term_rx.recv() is pending.
second_branch_polled == ~term_rx

\* select! { biased; _ = term_rx.recv() => ... }: the first branch.
WrapSelectTermMutant ==
    /\ wrap_pc = "select"
    /\ term_rx
    /\ wrap_pc' = "done"
    /\ wrap_item' = NoItem
    /\ out_closed' = TRUE
    /\ both_ready' = (both_ready \/ BothReady)
    /\ UNCHANGED <<rx, rx_closed, inner_hist, term_rx, term_at_open,
                   out_tx, out_rx_dropped, out>>
    /\ UNCHANGED otherThanWrap

WrapSelectTerm ==
    /\ wrap_pc = "select"
    /\ term_rx
    /\ wrap_pc' = "send_term"
    /\ wrap_item' = ShutdownStatus
    /\ both_ready' = (both_ready \/ BothReady)
    /\ UNCHANGED <<rx, rx_closed, inner_hist, term_rx, term_at_open,
                   out_tx, out_closed, out_rx_dropped, out>>
    /\ UNCHANGED otherThanWrap

\* select! { ... maybe = rx.recv() => ... }: the second branch, polled only
\* when the first one is not ready (biased).
WrapSelectInnerMutant ==
    /\ wrap_pc = "select"
    /\ second_branch_polled
    /\ rx # <<>> \/ rx_closed
    /\ IF rx # <<>>
         THEN /\ rx' = Tail(rx)
              /\ wrap_item' = Head(rx)
              /\ wrap_pc' = "send_ok"
              /\ UNCHANGED out_closed
         ELSE /\ wrap_pc' = "done"
              /\ out_closed' = TRUE
              /\ UNCHANGED <<rx, wrap_item>>
    /\ both_ready' = (both_ready \/ BothReady)
    /\ UNCHANGED <<rx_closed, inner_hist, term_rx, term_at_open,
                   out_tx, out_rx_dropped, out>>
    /\ UNCHANGED otherThanWrap

WrapSelectInner ==
    /\ wrap_pc = "select"
    /\ second_branch_polled
    /\ rx # <<>> \/ rx_closed
    /\ IF rx # <<>>
         THEN /\ rx' = Tail(rx)
              /\ wrap_item' = Head(rx)
              /\ wrap_pc' = IF Head(rx).ok THEN "send_ok" ELSE "send_err"
              /\ UNCHANGED out_closed
         ELSE /\ wrap_pc' = "done"
              /\ out_closed' = TRUE
              /\ UNCHANGED <<rx, wrap_item>>
    /\ both_ready' = (both_ready \/ BothReady)
    /\ UNCHANGED <<rx_closed, inner_hist, term_rx, term_at_open,
                   out_tx, out_rx_dropped, out>>
    /\ UNCHANGED otherThanWrap

\* out_tx.send(..).await completes: with room in the channel the item is
\* queued; with the receiver dropped the send fails.
WrapSend ==
    /\ wrap_pc \in {"send_ok", "send_err", "send_term"}
    /\ out_rx_dropped \/ Len(out_tx) < OutCap
    /\ IF out_rx_dropped
         THEN /\ wrap_pc' = "done"
              /\ out_closed' = TRUE
              /\ UNCHANGED out_tx
         ELSE /\ out_tx' = Append(out_tx, wrap_item)
              /\ wrap_pc' = IF wrap_pc = "send_ok" THEN "select" ELSE "done"
              /\ out_closed' = (wrap_pc # "send_ok")
    /\ wrap_item' = NoItem
    /\ UNCHANGED <<rx, rx_closed, inner_hist, term_rx, term_at_open, both_ready,
                   out_rx_dropped, out>>
    /\ UNCHANGED otherThanWrap

\* The client polls the outer ReceiverStream.
OutRecv ==
    /\ ~out_rx_dropped
    /\ out_tx # <<>>
    /\ out' = Append(out, Head(out_tx))
    /\ out_tx' = Tail(out_tx)
    /\ UNCHANGED <<rx, rx_closed, inner_hist, term_rx, term_at_open, both_ready, wrap_pc,
                   wrap_item, out_closed, out_rx_dropped>>
    /\ UNCHANGED otherThanWrap

\* The client drops the outer stream.
OutDrop ==
    /\ ~out_rx_dropped
    /\ out_rx_dropped' = TRUE
    /\ out_tx' = <<>>
    /\ UNCHANGED <<rx, rx_closed, inner_hist, term_rx, term_at_open, both_ready, wrap_pc,
                   wrap_item, out_closed, out>>
    /\ UNCHANGED otherThanWrap

NextWrap ==
    \/ InnerSend
    \/ InnerClose
    \/ ShutdownSignal
    \/ WrapSelectTerm
    \/ WrapSelectInner
    \/ WrapSend
    \/ OutRecv
    \/ OutDrop

\* Everything the outer stream has carried so far, received or still queued.
OutAll == out \o out_tx

RECURSIVE CutAfterFirstErr(_)
CutAfterFirstErr(s) ==
    IF s = <<>> THEN <<>>
    ELSE IF ~Head(s).ok THEN <<Head(s)>>
    ELSE <<Head(s)>> \o CutAfterFirstErr(Tail(s))

OkPrefix(s) == SelectSeq(s, LAMBDA it : it.ok)
ErrCount(s) == Len(SelectSeq(s, LAMBDA it : ~it.ok))

\* C9: wrap_with_shutdown: when the shutdown signal is sent while the inner
\* stream is still open, the outer stream carries the inner Ok items already
\* forwarded, then exactly one Err(UNAVAILABLE), and then ends: the error is
\* the last item, there is no second error and no inner item follows it.
C9_ShutdownEmitsOneUnavailable ==
    term_at_open =>
        /\ ErrCount(OutAll) <= 1
        /\ \A i \in 1..Len(OutAll) :
              ~OutAll[i].ok => (i = Len(OutAll) /\ OutAll[i] = ShutdownStatus)
        /\ IsPrefix(OkPrefix(OutAll), inner_hist)
        /\ (out_closed /\ ~out_rx_dropped) =>
              (OutAll # <<>> /\ Last(OutAll) = ShutdownStatus)

\* Witness of C9: an item was forwarded, then the signal came while the inner
\* stream was open, and the client received the item and the error.
C9_Witness ==
    /\ term_at_open
    /\ out_closed
    /\ Len(out) = 2
    /\ out[1].ok
    /\ out[2] = ShutdownStatus

\* C10: wrap_with_shutdown with no shutdown signal: the outer stream is the
\* inner stream cut after its first Err; every inner Ok is forwarded once and
\* in order, an inner Err ends the outer stream with nothing after it, and
\* the outer stream ends without an error when the inner stream closes.
C10_NoShutdownForwardsInner ==
    ~term_rx =>
        /\ IsPrefix(out, CutAfterFirstErr(inner_hist))
        /\ ~out_rx_dropped => IsPrefix(OutAll, CutAfterFirstErr(inner_hist))
        /\ (out_closed /\ ~out_rx_dropped) => OutAll = CutAfterFirstErr(inner_hist)

\* Witness of C10: the inner stream sent Ok, Err and one more item; the outer
\* stream ended after the Err.
C10_Witness ==
    /\ ~term_rx
    /\ out_closed
    /\ Len(out) = 2
    /\ out[1].ok
    /\ out[2] = ErrItem("ABORTED")
    /\ Len(inner_hist) = 3

\* C28: wrap_with_shutdown prefers shutdown: once select! was polled with
\* the shutdown signal and an inner event (item, error or end of stream) both
\* ready, the only error the outer stream carries is Err(UNAVAILABLE), it is
\* its last item, and the outer stream does not end without it (no inner
\* error and no normal end-of-stream is reported instead); the task takes no
\* inner event any more.
C28_ShutdownPreferredWhenBothReady ==
    both_ready =>
        /\ \A i \in 1..Len(OutAll) :
              ~OutAll[i].ok => (i = Len(OutAll) /\ OutAll[i] = ShutdownStatus)
        /\ (out_closed /\ ~out_rx_dropped) =>
              (OutAll # <<>> /\ Last(OutAll) = ShutdownStatus)
        /\ wrap_pc \in {"send_term", "done"}

\* Witness of C28: an inner error was waiting in the channel when the signal
\* came; the outer stream carried Err(UNAVAILABLE) alone and ended, and the
\* inner error is still in the channel.
C28_Witness ==
    /\ both_ready
    /\ term_at_open
    /\ out_closed
    /\ out = <<ShutdownStatus>>
    /\ inner_hist = <<ErrItem("ABORTED")>>
    /\ rx = <<ErrItem("ABORTED")>>

----------------------------------------------------------------------------
(* Log files.  A file is a sequence of bytes.  An RFC 3339 timestamp is one *)
(* symbol "T<k>" standing for the instant k; every other byte is itself.   *)

\* Bounds of the file model.
MaxTs == 2          \* instants 1..MaxTs appear in files
MaxLines == 3       \* lines per file

TsSymbols == {"T1", "T2", "T3", "T4"}
TsOf(b) == CASE b = "T1" -> 1 [] b = "T2" -> 2 [] b = "T3" -> 3 [] b = "T4" -> 4
TsSym(k) == CHOOSE b \in TsSymbols : TsOf(b) = k

NL == "\n"
SP == " "

\* "<timestamp> stdout F <message>\n"
CriLine(k, msg) ==
    <<TsSym(k), SP, "s", "t", "d", "o", "u", "t", SP, "F", SP>> \o msg \o <<NL>>

\* The messages of the well-formed lines: plain, empty, ending in a space,
\* and one that quotes a timestamp.
Messages == {<<"a">>, <<>>, <<"a", SP>>, <<"T1", SP, "a">>}

\* Lines without a leading timestamp: "f" (one token), and a line whose
\* first token is not a timestamp.
JunkLines == {<<"f", NL>>,
              <<"b", SP, "s", "t", "d", "o", "u", "t", SP, "F", SP, "a", NL>>}

LineTemplates ==
    {CriLine(k, msg) : k \in 1..MaxTs, msg \in Messages} \cup JunkLines

RECURSIVE Concat(_)
Concat(ls) == IF ls = <<>> THEN <<>> ELSE Head(ls) \o Concat(Tail(ls))

\* Every file of at most MaxLines lines.
Files == {Concat(ls) : ls \in UNION {[1..n -> LineTemplates] : n \in 0..MaxLines}}

----------------------------------------------------------------------------
(* util/offset.rs                                                          *)

NoOffset == [some |-> FALSE, byte_offset |-> 0, line_length |-> 0]
Offset(byte_offset, line_length) ==
    [some |-> TRUE, byte_offset |-> byte_offset, line_length |-> line_length]

\* BufRead::read_line at byte offset p: the bytes up to and including the
\* next "\n", or up to the end of the file.
RECURSIVE LineEnd(_, _)
LineEnd(f, p) ==
    IF p >= Len(f) THEN Len(f)
    ELSE IF f[p + 1] = NL THEN p + 1
    ELSE LineEnd(f, p + 1)

read_line(f, p) == SubSeq(f, p + 1, LineEnd(f, p))

\* str::trim_end: trailing whitespace removed.
RECURSIVE trim_end(_)
trim_end(line) ==
    IF line # <<>> /\ Last(line) \in {SP, NL}
      THEN trim_end(SubSeq(line, 1, Len(line) - 1))
      ELSE line

\* Index of the first space of a line, 0 when there is none.
RECURSIVE FirstSpace(_, _)
FirstSpace(line, i) ==
    IF i > Len(line) THEN 0
    ELSE IF line[i] = SP THEN i
    ELSE FirstSpace(line, i + 1)

\* parse_timestamp (CRI branch): splitn(2, ' ') must give two parts and the
\* first must be an RFC 3339 timestamp.  Returns the instant, 0 on Err.
parse_timestamp(line) ==
    LET sp == FirstSpace(line, 1)
    IN IF sp = 0 THEN 0
       ELSE IF sp = 2 /\ line[1] \in TsSymbols THEN TsOf(line[1])
       ELSE 0

\* scan_timestamp(reader, right, start_pos): the reader stands at pos.
RECURSIVE scan_loop(_, _, _, _)
scan_loop(f, right, start_pos, pos) ==
    IF pos > right THEN [new_mid |-> start_pos, found |-> FALSE, ts |-> 0, len |-> 0]
    ELSE LET raw == read_line(f, pos)
             line == trim_end(raw)
             bytes_read == Len(raw)
         IN IF bytes_read = 0
              THEN [new_mid |-> start_pos, found |-> FALSE, ts |-> 0, len |-> 0]
              ELSE IF parse_timestamp(line) # 0
                THEN [new_mid |-> pos, found |-> TRUE,
                      ts |-> parse_timestamp(line), len |-> Len(line)]
                ELSE scan_loop(f, right, start_pos, pos + bytes_read)

scan_timestamp(f, right, start_pos) == scan_loop(f, right, start_pos, start_pos)

\* A narrowing that keeps the probed position in the interval.
narrow_searchMutant(new_mid) == new_mid

\* `right = new_mid - 1`: no valid timestamp found, narrow the search.
narrow_search(new_mid) == new_mid - 1

\* find_step with the Until comparison made strict.
find_stepMutant(f, target_time, mode, left, right, result) ==
    LET mid == (left + right) \div 2
        sc == scan_timestamp(f, right, mid)
    IN IF sc.found
         THEN IF mode = "Since"
                THEN IF sc.ts >= target_time
                       THEN [left |-> left, right |-> sc.new_mid - 1,
                             result |-> Offset(sc.new_mid, sc.len)]
                       ELSE [left |-> sc.new_mid + 1, right |-> right, result |-> result]
                ELSE IF sc.ts < target_time
                       THEN [left |-> sc.new_mid + 1, right |-> right,
                             result |-> Offset(sc.new_mid, sc.len)]
                       ELSE [left |-> left, right |-> sc.new_mid - 1, result |-> result]
         ELSE [left |-> left, right |-> sc.new_mid - 1, result |-> result]

\* One iteration of `while left <= right` of find_nearest_offset.
find_step(f, target_time, mode, left, right, result) ==
    LET mid == (left + right) \div 2
        sc == scan_timestamp(f, right, mid)
    IN IF sc.found
         THEN IF mode = "Since"
                THEN IF sc.ts >= target_time
                       THEN [left |-> left, right |-> sc.new_mid - 1,
                             result |-> Offset(sc.new_mid, sc.len)]
                       ELSE [left |-> sc.new_mid + 1, right |-> right, result |-> result]
                ELSE IF sc.ts <= target_time
                       THEN [left |-> sc.new_mid + 1, right |-> right,
                             result |-> Offset(sc.new_mid, sc.len)]
                       ELSE [left |-> left, right |-> sc.new_mid - 1, result |-> result]
         ELSE [left |-> left, right |-> narrow_search(sc.new_mid), result |-> result]

RECURSIVE find_loop(_, _, _, _, _, _)
find_loop(f, target_time, mode, left, right, result) ==
    IF left > right THEN result
    ELSE LET st == find_step(f, target_time, mode, left, right, result)
         IN find_loop(f, target_time, mode, st.left, st.right, st.result)

\* find_nearest_offset(file, target_time, min_offset, max_offset, mode)
find_nearest_offset(f, target_time, min_offset, max_offset, mode) ==
    IF max_offset = 0 THEN NoOffset
    ELSE find_loop(f, target_time, mode, min_offset, max_offset - 1, NoOffset)

find_nearest_offset_since(f, target_time, min_offset, max_offset) ==
    find_nearest_offset(f, target_time, min_offset, max_offset, "Since")

find_nearest_offset_until(f, target_time, min_offset, max_offset) ==
    find_nearest_offset(f, target_time, min_offset, max_offset, "Until")

\* The search as a process: a call on any file, target and mode, with
\* min_offset at the start of the file or of any line and max_offset the
\* length of the file (file.metadata()?.len()).
LineStarts(f) == {0} \cup {p \in 1..Len(f) : f[p] = NL}

IdleOff ==
    /\ off_file = <<>>
    /\ off_target = 0
    /\ off_mode = "Since"
    /\ off_min = 0
    /\ off_left = 0
    /\ off_right = -1
    /\ off_result = NoOffset
    /\ off_pc = "done"

InitOff ==
    /\ off_file \in Files
    /\ off_target \in 0..(MaxTs + 1)
    /\ off_mode \in {"Since", "Until"}
    /\ off_min \in {p \in LineStarts(off_file) : p < Len(off_file) \/ p = 0}
    /\ off_left = off_min
    /\ off_right = Len(off_file) - 1
    /\ off_result = NoOffset
    /\ off_pc = IF Len(off_file) = 0 THEN "done" ELSE "loop"

\* One probe of the binary search.
Probe ==
    /\ off_pc = "loop"
    /\ off_left <= off_right
    /\ LET st == find_step(off_file, off_target, off_mode, off_left, off_right, off_result)
       IN /\ off_left' = st.left
          /\ off_right' = st.right
          /\ off_result' = st.result
    /\ UNCHANGED <<off_file, off_target, off_mode, off_min, off_pc>>
    /\ UNCHANGED otherThanOff

\* `while left <= right` ends: Ok(result).
ProbeDone ==
    /\ off_pc = "loop"
    /\ off_left > off_right
    /\ off_pc' = "done"
    /\ UNCHANGED <<off_file, off_target, off_mode, off_min, off_left, off_right, off_result>>
    /\ UNCHANGED otherThanOff

NextOff ==
    \/ Probe
    \/ ProbeDone


\* The lines of a file as a linear scan from the start sees them: each with
\* the byte offset of its first byte and its text without the newline.
RECURSIVE LinesFrom(_, _)
LinesFrom(f, p) ==
    IF p >= Len(f) THEN <<>>
    ELSE LET e == LineEnd(f, p)
             text == IF f[e] = NL THEN SubSeq(f, p + 1, e - 1) ELSE SubSeq(f, p + 1, e)
         IN <<[byte_offset |-> p, text |-> text]>> \o LinesFrom(f, e)

Lines(f) == LinesFrom(f, 0)

\* The timestamps of the parseable lines, in file order.
ParseableLines(f) == SelectSeq(Lines(f), LAMBDA l : parse_timestamp(l.text) # 0)

Monotone(f) ==
    LET ls == ParseableLines(f)
    IN \A i, j \in 1..Len(ls) :
          i < j => parse_timestamp(ls[i].text) <= parse_timestamp(ls[j].text)

\* The reference: the first line with timestamp >= T (Since), the last line
\* with timestamp <= T (Until), None when there is no such line.
LinearScan(f, target_time, mode) ==
    LET ls == ParseableLines(f)
        hits == {i \in 1..Len(ls) :
                    IF mode = "Since" THEN parse_timestamp(ls[i].text) >= target_time
                                      ELSE parse_timestamp(ls[i].text) <= target_time}
    IN IF hits = {} THEN NoOffset
       ELSE LET i == IF mode = "Since"
                       THEN CHOOSE k \in hits : \A m \in hits : k <= m
                       ELSE CHOOSE k \in hits : \A m \in hits : k >= m
            IN Offset(ls[i].byte_offset, Len(ls[i].text))

\* C4: on a file whose parseable lines are in non-decreasing timestamp order,
\* a finished search over the whole file returns what a linear scan returns:
\* the offset and the length of the first line at or after T (Since), of the
\* last line at or before T (Until), or None.
C4_BinarySearchEqualsLinearScan ==
    (off_pc = "done" /\ off_min = 0 /\ Monotone(off_file))
        => off_result = LinearScan(off_file, off_target, off_mode)

\* ---- searches over files whose messages hold timestamps ----

MaxEmbeddedLines == 2   \* lines per file
EmbeddedPad == 9        \* bytes of the message after its timestamp and space

\* A message that begins with text that parses as a timestamp and a space.
EmbeddedMessage(k) == <<TsSym(k), SP>> \o [i \in 1..EmbeddedPad |-> "a"]

EmbeddedTemplates ==
    {CriLine(k, EmbeddedMessage(e)) : k \in 1..MaxTs, e \in 1..MaxTs}
        \cup {CriLine(k, <<"a">>) : k \in 1..MaxTs}

EmbeddedFiles ==
    {Concat(ls) : ls \in UNION {[1..n -> EmbeddedTemplates] : n \in 0..MaxEmbeddedLines}}

\* A search over the whole of such a file.
InitEmbedded ==
    /\ off_file \in EmbeddedFiles
    /\ off_target \in 0..(MaxTs + 1)
    /\ off_mode \in {"Since", "Until"}
    /\ off_min = 0
    /\ off_left = off_min
    /\ off_right = Len(off_file) - 1
    /\ off_result = NoOffset
    /\ off_pc = IF Len(off_file) = 0 THEN "done" ELSE "loop"

\* C36: the byte_offset of every result of find_nearest_offset_since and
\* find_nearest_offset_until is the start of a line of the file - offset 0
\* or the position right after a newline - also when a message holds text
\* that parses as a timestamp followed by a space.
C36_ResultIsALineStart ==
    (off_pc = "done" /\ off_result.some) => off_result.byte_offset \in LineStarts(off_file)

\* ---- since and until over one file (stream_backward's two searches) ----

MaxWindowTs == 3      \* instants 1..MaxWindowTs appear in these files
MaxWindowLines == 2   \* lines per file

WindowTemplates ==
    {CriLine(k, msg) : k \in 1..MaxWindowTs, msg \in {<<"a">>, <<>>}}
        \cup {<<"f", NL>>}

WindowFiles ==
    {Concat(ls) : ls \in UNION {[1..n -> WindowTemplates] : n \in 0..MaxWindowLines}}

\* Bound of the ranged searches.
MaxRangeLines == 2      \* lines per file

\* The files of the ranged searches: a plain line, a line whose message
\* holds a timestamp and a space, a line without a timestamp.
RangeTemplates ==
    {CriLine(1, <<"a">>), CriLine(MaxTs, <<"T1", SP, "a">>), <<"f", NL>>}

RangeFiles ==
    {Concat(ls) : ls \in UNION {[1..n -> RangeTemplates] : n \in 0..MaxRangeLines}}

\* find_nearest_offset(file, target_time, min_offset, max_offset, mode) on
\* ranges that begin and end inside lines as well.
InitRange ==
    /\ off_file \in RangeFiles
    /\ off_target \in 0..(MaxTs + 1)
    /\ off_mode \in {"Since", "Until"}
    /\ off_min \in LineStarts(off_file) \cup {Min2(1, Len(off_file))}
    /\ off_left = off_min
    /\ \E max_offset \in {0, Len(off_file), Len(off_file) + 1}
                             \cup {n \in {Len(off_file) - 1} : n > 0} :
          /\ off_right = max_offset - 1
          /\ off_pc = IF max_offset = 0 THEN "done" ELSE "loop"
    /\ off_result = NoOffset

\* C33: find_nearest_offset terminates in both modes, for every file and
\* every range: in every state of the loop the probe that comes next
\* strictly shrinks the interval [left, right] - left does not decrease,
\* right does not increase, and the interval gets shorter - also when the
\* probe finds no parseable line at or below right or reads at the end of
\* the file.
C33_SearchTerminates ==
    (off_pc = "loop" /\ off_left <= off_right) =>
        LET st == find_step(off_file, off_target, off_mode, off_left, off_right, off_result)
        IN /\ st.left >= off_left
           /\ st.right <= off_right
           /\ st.right - st.left < off_right - off_left

\* A search from inside a line that moved left past lines that were too
\* early, found no line and ended.
C33_Witness ==
    /\ off_pc = "done"
    /\ off_min \notin LineStarts(off_file)
    /\ off_left > off_min
    /\ off_left > off_right
    /\ off_result = NoOffset

\* find_nearest_offset_since / _until (file, ts, 0, max_offset) as
\* stream_backward_internal calls them.
InitWindow ==
    /\ off_file \in WindowFiles
    /\ off_target \in 0..(MaxWindowTs + 1)
    /\ off_mode \in {"Since", "Until"}
    /\ off_min = 0
    /\ off_left = off_min
    /\ off_right = Len(off_file) - 1
    /\ off_result = NoOffset
    /\ off_pc = IF Len(off_file) = 0 THEN "done" ELSE "loop"

\* A finished search over the whole file, paired with the search of the
\* other mode over the same file for every target that keeps T1 <= T2.
SinceUntilPairs ==
    IF off_mode = "Since"
      THEN {[s |-> off_result,
             u |-> find_nearest_offset_until(off_file, t2, 0, Len(off_file)),
             t1 |-> off_target, t2 |-> t2] : t2 \in off_target..(MaxWindowTs + 1)}
      ELSE {[s |-> find_nearest_offset_since(off_file, t1, 0, Len(off_file)),
             u |-> off_result,
             t1 |-> t1, t2 |-> off_target] : t1 \in 0..off_target}

\* Some line of the file has its timestamp within [t1, t2].
LineWithin(f, t1, t2) ==
    \E i \in 1..Len(ParseableLines(f)) :
        LET t == parse_timestamp(ParseableLines(f)[i].text) IN t1 <= t /\ t <= t2

----------------------------------------------------------------------------
(* authorizer.rs: Authorizer                                               *)

\* Bounds of the authorizer model.
MaxRequests == 2    \* requests (each builds an Authorizer)
MaxCalls == 2       \* subject-access-reviews a session has room for
TickSecs == 150     \* seconds per clock tick
MaxNsLen == 2       \* namespaces per is_authorized call

\* Authorizer::DEFAULT_CACHE_TTL_SECS
DEFAULT_CACHE_TTL_SECS == 300

Tokens == {"t1"}
Namespaces == {"a", "b"}
Verbs == {"list"}
SarOutcomes == {"allow", "deny", "error"}

\* The namespace lists a request can carry.
NsLists == UNION {[1..n -> Namespaces] : n \in 0..MaxNsLen}

\* hash_token: SHA-256 of the token, hex encoded.
hash_token(token) == <<"sha256", token>>

\* CacheKey: (token_hash, namespace, verb)
CacheKey(token_hash, namespace, verb) == <<token_hash, namespace, verb>>

\* An entry is served until time_to_live has passed since its insertion.
Live(e, t) == t - e.at < DEFAULT_CACHE_TTL_SECS

\* auth_cache.get(&cache_key): the live entries of the key (at most one).
CacheGet(cache, key, t) == {e \in cache : e.key = key /\ Live(e, t)}

\* auth_cache.insert(cache_key, allowed)
CacheInsert(cache, key, allowed, t) ==
    {e \in cache : e.key # key} \cup {[key |-> key, allowed |-> allowed, at |-> t]}

\* Status::new(tonic::Code::Unauthenticated, "permission denied: `{verb} pods/log` in namespace `{namespace}`")
DeniedStatus(verb, namespace) ==
    [code |-> "UNAUTHENTICATED", verb |-> verb, namespace |-> namespace]

\* Status::new(tonic::Code::Unknown, "failed to authenticate {error}")
SarErrorStatus == [code |-> "UNKNOWN", verb |-> "", namespace |-> ""]

OkStatus == [code |-> "OK", verb |-> "", namespace |-> ""]

\* What auth_cache.insert is given after a response; the error path returns
\* through `?` before it.
RECURSIVE AuthLoopMutant(_, _, _, _, _, _, _)
AuthLoopMutant(cache, token_hash, nss, verb, sar, t, log) ==
    IF nss = <<>> THEN [cache |-> cache, status |-> OkStatus, log |-> log]
    ELSE
      LET namespace == Head(nss)
          key == CacheKey(token_hash, namespace, verb)
          hit == CacheGet(cache, key, t)
      IN IF hit # {}
           THEN LET allowed == (CHOOSE e \in hit : TRUE).allowed
                    step == [key |-> key, via |-> "cache",
                             res |-> IF allowed THEN "allow" ELSE "deny"]
                IN IF ~allowed
                     THEN [cache |-> cache, status |-> DeniedStatus(verb, namespace),
                           log |-> Append(log, step)]
                     ELSE AuthLoopMutant(cache, token_hash, Tail(nss), verb,
                                         Tail(sar), t, Append(log, step))
           ELSE LET res == Head(sar)
                    step == [key |-> key, via |-> "sar", res |-> res]
                IN IF res = "error"
                     THEN [cache |-> CacheInsert(cache, key, FALSE, t),
                           status |-> SarErrorStatus,
                           log |-> Append(log, step)]
                     ELSE IF res = "deny"
                       THEN [cache |-> CacheInsert(cache, key, FALSE, t),
                             status |-> DeniedStatus(verb, namespace),
                             log |-> Append(log, step)]
                       ELSE AuthLoopMutant(CacheInsert(cache, key, TRUE, t),
                                           token_hash, Tail(nss), verb,
                                           Tail(sar), t, Append(log, step))

\* is_authorized: `for namespace in namespaces { .. }`. sar[i] is what the
\* control plane would answer for the i-th namespace if it is asked.
RECURSIVE AuthLoop(_, _, _, _, _, _, _)
AuthLoop(cache, token_hash, nss, verb, sar, t, log) ==
    IF nss = <<>> THEN [cache |-> cache, status |-> OkStatus, log |-> log]
    ELSE
      LET namespace == Head(nss)
          key == CacheKey(token_hash, namespace, verb)
          hit == CacheGet(cache, key, t)
      IN IF hit # {}
           THEN LET allowed == (CHOOSE e \in hit : TRUE).allowed
                    step == [key |-> key, via |-> "cache",
                             res |-> IF allowed THEN "allow" ELSE "deny"]
                IN IF ~allowed
                     THEN [cache |-> cache, status |-> DeniedStatus(verb, namespace),
                           log |-> Append(log, step)]
                     ELSE AuthLoop(cache, token_hash, Tail(nss), verb,
                                   Tail(sar), t, Append(log, step))
           ELSE LET res == Head(sar)
                    step == [key |-> key, via |-> "sar", res |-> res]
                IN IF res = "error"
                     THEN [cache |-> cache, status |-> SarErrorStatus,
                           log |-> Append(log, step)]
                     ELSE IF res = "deny"
                       THEN [cache |-> CacheInsert(cache, key, FALSE, t),
                             status |-> DeniedStatus(verb, namespace),
                             log |-> Append(log, step)]
                       ELSE AuthLoop(CacheInsert(cache, key, TRUE, t),
                                     token_hash, Tail(nss), verb,
                                     Tail(sar), t, Append(log, step))

\* is_authorized without the default: an empty list is left empty.
EffectiveNamespacesMutant(nss) == nss

\* `if namespaces.is_empty() { namespaces = &empty_namespace; }`
EffectiveNamespaces(nss) == IF nss = <<>> THEN <<"">> ELSE nss

NoCall == [id |-> 0, verb |-> "", namespaces |-> <<>>, status |-> OkStatus,
           log |-> <<>>, before |-> {}, at |-> 0]

InitAuth ==
    /\ now = 0
    /\ authorizers = <<>>
    /\ sar_hist = <<>>
    /\ auth_last = NoCall

\* Authorizer::new: every RPC handler builds its own Authorizer from the
\* request metadata, and with it a new, empty auth_cache.
NewAuthorizer ==
    /\ Len(authorizers) < MaxRequests
    /\ \E token \in Tokens :
          authorizers' = Append(authorizers, [token |-> token, auth_cache |-> {}])
    /\ UNCHANGED <<now, sar_hist, auth_last>>
    /\ UNCHANGED otherThanAuth

\* Authorizer::is_authorized(namespaces, verb) on the Authorizer of request id.
IsAuthorized ==
    /\ \E id \in 1..Len(authorizers), nss \in NsLists, verb \in Verbs :
       \E sar \in [1..Len(EffectiveNamespaces(nss)) -> SarOutcomes] :
          /\ Len(sar_hist) + Len(EffectiveNamespaces(nss)) <= MaxCalls
          /\ LET a == authorizers[id]
                 r == AuthLoop(a.auth_cache, hash_token(a.token),
                               EffectiveNamespaces(nss), verb, sar, now, <<>>)
                 asked == SelectSeq(r.log, LAMBDA st : st.via = "sar")
             IN /\ authorizers' = [authorizers EXCEPT ![id].auth_cache = r.cache]
                /\ sar_hist' = sar_hist \o
                      [i \in 1..Len(asked) |->
                          [key |-> asked[i].key, res |-> asked[i].res, at |-> now]]
                /\ auth_last' = [id |-> id, verb |-> verb, namespaces |-> nss,
                                 status |-> r.status, log |-> r.log,
                                 before |-> a.auth_cache, at |-> now]
    /\ UNCHANGED now
    /\ UNCHANGED otherThanAuth

\* Time passes, until the time to live of the first entries is over; moka
\* drops the entries whose time to live is over.
Tick ==
    /\ now < DEFAULT_CACHE_TTL_SECS
    /\ now' = now + TickSecs
    /\ authorizers' =
          [id \in 1..Len(authorizers) |->
              [authorizers[id] EXCEPT
                  !.auth_cache = {e \in @ : Live(e, now + TickSecs)}]]
    /\ UNCHANGED <<sar_hist, auth_last>>
    /\ UNCHANGED otherThanAuth

NextAuth ==
    \/ NewAuthorizer
    \/ IsAuthorized
    \/ Tick


\* C6: for a fixed (token, namespace, verb), across the requests of the
\* process: once a subject-access-review has decided the key, every later
\* is_authorized call made before the TTL expires is answered from the cache,
\* so no second review of that key is sent within the TTL.
C6_CacheSharedAcrossRequests ==
    \A i, j \in 1..Len(sar_hist) :
        (/\ i < j
         /\ sar_hist[i].key = sar_hist[j].key
         /\ sar_hist[i].res # "error")
        => sar_hist[j].at - sar_hist[i].at >= DEFAULT_CACHE_TTL_SECS

\* C7: when a subject-access-review of an is_authorized call fails,
\* is_authorized returns UNKNOWN (and only then), and the call stores nothing
\* for that key: the cache holds what it held plus the allows obtained for
\* the namespaces before it, and no entry for the failed key, so the next
\* call for the key misses the cache.
C7_SarErrorNotCached ==
    auth_last.log # <<>> =>
        LET log == auth_last.log
            n == Len(log)
            cache == authorizers[auth_last.id].auth_cache
        IN /\ (auth_last.status.code = "UNKNOWN") <=> (log[n].res = "error")
           /\ (log[1].via = "cache") <=>
                 (CacheGet(auth_last.before, log[1].key, auth_last.at) # {})
           /\ log[n].res = "error" =>
                 /\ log[n].via = "sar"
                 /\ CacheGet(auth_last.before, log[n].key, auth_last.at) = {}
                 /\ \A e \in cache :
                       \/ e \in auth_last.before
                       \/ \E i \in 1..(n - 1) :
                             /\ log[i].via = "sar"
                             /\ log[i].key = e.key
                             /\ e.allowed
                             /\ e.at = auth_last.at
                 /\ \A e \in cache : e.key = log[n].key => e \in auth_last.before

\* Witness of C7: a call allowed its first namespace by review, and the
\* review of its second namespace failed.
C7_Witness ==
    /\ Len(auth_last.log) = 2
    /\ auth_last.log[1].res = "allow"
    /\ auth_last.log[2].res = "error"
    /\ auth_last.status.code = "UNKNOWN"
    /\ Cardinality(authorizers[auth_last.id].auth_cache) = 1

\* C37: is_authorized over a list of namespaces returns Ok only if every
\* namespace of the list is allowed for the verb; otherwise it returns the
\* denial (or the error) of the first namespace in list order that is not
\* allowed, it asks nothing about the namespaces after that one, and the
\* allows obtained for the namespaces before it are in the cache.
C37_FirstRefusalDecides ==
    auth_last.id # 0 =>
        LET nss == IF auth_last.namespaces = <<>> THEN <<"">>
                   ELSE auth_last.namespaces
            log == auth_last.log
            n == Len(log)
            cache == authorizers[auth_last.id].auth_cache
        IN /\ n \in 1..Len(nss)
           /\ \A i \in 1..n : log[i].key[2] = nss[i] /\ log[i].key[3] = auth_last.verb
           /\ \A i \in 1..(n - 1) :
                 /\ log[i].res = "allow"
                 /\ now = auth_last.at =>
                       \E e \in CacheGet(cache, log[i].key, now) : e.allowed
           /\ (auth_last.status = OkStatus) <=>
                 (n = Len(nss) /\ log[n].res = "allow")
           /\ log[n].res = "deny" =>
                 auth_last.status = DeniedStatus(auth_last.verb, nss[n])
           /\ log[n].res = "error" => auth_last.status = SarErrorStatus
           /\ LET asked == SelectSeq(log, LAMBDA st : st.via = "sar")
                  base == Len(sar_hist) - Len(asked)
              IN /\ base >= 0
                 /\ \A i \in 1..Len(asked) :
                       /\ sar_hist[base + i].key = asked[i].key
                       /\ sar_hist[base + i].at = auth_last.at

\* Witness of C37: a call over two namespaces was refused at the first one,
\* by a review, and nothing was asked about the second.
C37_Witness ==
    /\ Len(auth_last.namespaces) = 2
    /\ auth_last.namespaces[1] # auth_last.namespaces[2]
    /\ Len(auth_last.log) = 1
    /\ auth_last.log[1].via = "sar"
    /\ auth_last.log[1].res = "deny"
    /\ auth_last.status = DeniedStatus(auth_last.verb, auth_last.namespaces[1])

\* C8: when the decision for a namespace is deny, from a review or from the
\* cache, is_authorized returns PERMISSION_DENIED with a message naming the
\* verb and the namespace.
C8_DenyIsPermissionDenied ==
    (auth_last.log # <<>> /\ Last(auth_last.log).res = "deny") =>
        /\ auth_last.status.code = "PERMISSION_DENIED"
        /\ auth_last.status.verb = auth_last.verb
        /\ auth_last.status.namespace = Last(auth_last.log).key[2]

----------------------------------------------------------------------------
(* stream_forward.rs / stream_backward.rs: the record streamers            *)
(* (CRI files, no grep, truncate_at_bytes = 0)                             *)

\* Bounds of the stream model.
MaxStreamLines == 2     \* lines in the file when the stream starts
MaxAppends == 2         \* lines appended while the stream runs
MaxTailLines == 1       \* lines in the file when a stream with followFrom = End starts

NoTime == 0             \* Option::None of start_time / stop_time
NoLimit == 0 - 1        \* no file.take()

\* The lines of the streamed files: well-formed lines with a plain and with
\* an empty message, and the lines without a leading timestamp.
StreamTemplates ==
    {CriLine(k, msg) : k \in 1..MaxTs, msg \in {<<"a">>, <<>>}} \cup JunkLines

StreamFiles ==
    {Concat(ls) : ls \in UNION {[1..n -> StreamTemplates] : n \in 0..MaxStreamLines}}

\* What the runtime appends: a well-formed line with the latest timestamp.
AppendedLine(k) == CriLine(MaxTs, [i \in 1..k |-> "a"])

\* Items of a record channel: Ok(LogRecord) and Err(Status).
LogRecord(ts, message, original_size_bytes, is_truncated) ==
    [ok |-> TRUE, code |-> "OK", ts |-> ts, message |-> message,
     original_size_bytes |-> original_size_bytes, is_truncated |-> is_truncated]
\* The record of a message that is not truncated.
RecordItem(ts, message) == LogRecord(ts, message, Len(message), FALSE)
StatusItem(code) == [ok |-> FALSE, ts |-> 0, message |-> <<>>, code |-> code]

\* Status::new(tonic::Code::Unavailable, "Server is shutting down")
shutdown_status == StatusItem("UNAVAILABLE")

CR == "\r"

\* TRUNCATION_SENTINEL, the byte 0x1F
US == "US"

\* The marker normalize_message looks for: sentinel + 16 hex digits + sentinel.
TRUNCATION_HEX_LEN == 16
MARKER_LEN == TRUNCATION_HEX_LEN + 2

HexChars == <<"0", "1", "2", "3", "4", "5", "6", "7", "8", "9",
              "a", "b", "c", "d", "e", "f", "A", "B", "C", "D", "E", "F">>
HexDigits == {HexChars[i] : i \in 1..Len(HexChars)}
HexDigitValue(c) ==
    LET i == CHOOSE k \in 1..Len(HexChars) : HexChars[k] = c
    IN IF i <= 16 THEN i - 1 ELSE i - 7

\* u64::from_str_radix(hex_str, 16)
RECURSIVE from_str_radix(_)
from_str_radix(hex) ==
    IF hex = <<>> THEN 0
    ELSE 16 * from_str_radix(SubSeq(hex, 1, Len(hex) - 1)) + HexDigitValue(Last(hex))

\* raw.trim_end_matches(|c| c == '\n' || c == '\r')
RECURSIVE trim_end_matches_newline(_)
trim_end_matches_newline(raw) ==
    IF raw # <<>> /\ Last(raw) \in {NL, CR}
      THEN trim_end_matches_newline(SubSeq(raw, 1, Len(raw) - 1))
      ELSE raw

\* normalize_message: (message, original_size_bytes, is_truncated).
normalize_message(raw) ==
    LET trimmed == trim_end_matches_newline(raw)
        suffix_start == Len(trimmed) - MARKER_LEN
        suffix == SubSeq(trimmed, suffix_start + 1, Len(trimmed))
        hex_bytes == SubSeq(suffix, 2, 1 + TRUNCATION_HEX_LEN)
    IN IF /\ Len(trimmed) >= MARKER_LEN
          /\ Last(trimmed) = US
          /\ suffix[1] = US
          /\ \A i \in 1..Len(hex_bytes) : hex_bytes[i] \in HexDigits
         THEN [message |-> SubSeq(trimmed, 1, suffix_start),
               original_size_bytes |-> suffix_start + from_str_radix(hex_bytes),
               is_truncated |-> TRUE]
         ELSE [message |-> trimmed, original_size_bytes |-> Len(trimmed),
               is_truncated |-> FALSE]

\* process_output, CRI branch, on the text of one matched line: nothing is
\* sent when the line has no space or fewer than 9 bytes after it; the task
\* panics (Timestamp::from_str(first).unwrap()) when the first token is not a
\* timestamp; otherwise one record is sent.
process_output(text) ==
    LET sp == FirstSpace(text, 1)
        first == SubSeq(text, 1, sp - 1)
        rest == SubSeq(text, sp + 1, Len(text))
    IN IF sp = 0 THEN [kind |-> "none", item |-> StatusItem("NONE")]
       ELSE IF Len(rest) < 9 THEN [kind |-> "none", item |-> StatusItem("NONE")]
       ELSE IF ~(Len(first) = 1 /\ first[1] \in TsSymbols)
              THEN [kind |-> "panic", item |-> StatusItem("NONE")]
       ELSE LET m == normalize_message(SubSeq(rest, 10, Len(rest)))
            IN [kind |-> "record",
                item |-> LogRecord(TsOf(first[1]), m.message,
                                   m.original_size_bytes, m.is_truncated)]

\* The searcher on a buffer: every complete line is matched
\* (PassThroughMatcher) and handed to process_output, in order, until one
\* panics; the bytes after the last newline stay in the buffer.
RECURSIVE search_buffer(_, _)
search_buffer(buf, sent) ==
    LET e == LineEnd(buf, 0)
    IN IF buf = <<>> \/ buf[e] # NL
         THEN [sent |-> sent, panicked |-> FALSE, rest |-> buf]
         ELSE LET r == process_output(SubSeq(buf, 1, e))
                  tl == SubSeq(buf, e + 1, Len(buf))
              IN IF r.kind = "panic"
                   THEN [sent |-> sent, panicked |-> TRUE, rest |-> tl]
                   ELSE search_buffer(tl, IF r.kind = "record"
                                            THEN Append(sent, r.item) ELSE sent)

\* The searcher at end of input: a last line without newline is matched too.
search_flush(buf, sent) ==
    IF buf = <<>> THEN [sent |-> sent, panicked |-> FALSE, rest |-> <<>>]
    ELSE LET r == process_output(buf)
         IN [sent |-> IF r.kind = "record" THEN Append(sent, r.item) ELSE sent,
             panicked |-> r.kind = "panic", rest |-> <<>>]

\* The sizes a read of the available bytes may return: everything, or less,
\* ending with any newline.
ReadSizes(avail) ==
    {n \in 1..Len(avail) : n = Len(avail) \/ avail[n] = NL}


\* ---- util/reader.rs: ReverseLineReader ----

REVERSE_READER_CHUNK_SIZE == 65536

\* memrchr(b'\n', buf[0..buf_end]): 0-based index of the last newline, -1
\* when there is none.
RECURSIVE memrchr_nl(_, _)
memrchr_nl(buf, buf_end) ==
    IF buf_end = 0 THEN 0 - 1
    ELSE IF buf[buf_end] = NL THEN buf_end - 1
    ELSE memrchr_nl(buf, buf_end - 1)

\* ReverseLineReader::new(inner, min_pos, max_pos)
ReverseLineReader_new(max_pos) ==
    [pos |-> max_pos, buf |-> <<>>, buf_end |-> 0, line_buf |-> <<>>]

\* next_line: r is the reader (line_buf holds the accumulated bytes in
\* reverse order); the result is the line, if any, and the reader after it.
RECURSIVE next_line(_, _, _)
next_line(f, min_pos, r) ==
    LET newline_pos == memrchr_nl(r.buf, r.buf_end)
    IN IF r.buf_end > 0 /\ newline_pos >= 0
         THEN IF newline_pos + 1 = r.buf_end
                THEN IF r.line_buf = <<>>
                       THEN next_line(f, min_pos, [r EXCEPT !.buf_end = newline_pos])
                       ELSE [some |-> TRUE,
                             line |-> Reverse(r.line_buf) \o <<NL>>,
                             r |-> [r EXCEPT !.line_buf = <<>>, !.buf_end = newline_pos]]
                ELSE [some |-> TRUE,
                      line |-> SubSeq(r.buf, newline_pos + 2, r.buf_end)
                                 \o Reverse(r.line_buf) \o <<NL>>,
                      r |-> [r EXCEPT !.line_buf = <<>>, !.buf_end = newline_pos]]
         ELSE LET r1 == [r EXCEPT
                           !.line_buf = r.line_buf \o Reverse(SubSeq(r.buf, 1, r.buf_end)),
                           !.buf_end = 0]
              IN IF r1.pos <= min_pos
                   THEN IF r1.line_buf = <<>>
                          THEN [some |-> FALSE, line |-> <<>>, r |-> r1]
                          ELSE [some |-> TRUE, line |-> Reverse(r1.line_buf),
                                r |-> [r1 EXCEPT !.line_buf = <<>>]]
                   ELSE LET size == Min2(REVERSE_READER_CHUNK_SIZE, r1.pos - min_pos)
                        IN next_line(f, min_pos,
                                     [r1 EXCEPT !.pos = r1.pos - size,
                                                !.buf = SubSeq(f, r1.pos - size + 1, r1.pos),
                                                !.buf_end = size])

\* Everything <ReverseLineReader as Read>::read delivers, read after read.
RECURSIVE reverse_read_all(_, _, _)
reverse_read_all(f, min_pos, r) ==
    LET nl == next_line(f, min_pos, r)
    IN IF nl.some THEN nl.line \o reverse_read_all(f, min_pos, nl.r) ELSE <<>>

ReverseBytes(f, min_pos, max_pos) ==
    reverse_read_all(f, min_pos, ReverseLineReader_new(max_pos))

\* The reader as a process: new over a range of a byte slice, then next_line
\* until it returns None.
MaxRevLen == 4      \* bytes of the slice

RevSlices == UNION {[1..n -> {"a", NL}] : n \in 0..MaxRevLen}

IdleRev ==
    /\ rv_pc = "idle"
    /\ rv_file = <<>>
    /\ rv_min = 0
    /\ rv_max = 0
    /\ rv = ReverseLineReader_new(0)
    /\ rv_out = <<>>

\* ReverseLineReader::new(inner, min_pos, max_pos)
InitRev ==
    /\ rv_pc = "lines"
    /\ rv_file \in RevSlices
    /\ rv_min \in 0..Len(rv_file)
    /\ rv_max \in rv_min..Len(rv_file)
    /\ rv = ReverseLineReader_new(rv_max)
    /\ rv_out = <<>>

\* next_line returns Ok(Some(line)).
RevNextLine ==
    /\ rv_pc = "lines"
    /\ LET nl == next_line(rv_file, rv_min, rv)
       IN /\ nl.some
          /\ rv' = nl.r
          /\ rv_out' = Append(rv_out, nl.line)
    /\ UNCHANGED <<rv_pc, rv_file, rv_min, rv_max, otherThanRev>>

\* next_line returns Ok(None).
RevNextNone ==
    /\ rv_pc = "lines"
    /\ LET nl == next_line(rv_file, rv_min, rv)
       IN /\ ~nl.some
          /\ rv' = nl.r
    /\ rv_pc' = "eof"
    /\ UNCHANGED <<rv_file, rv_min, rv_max, rv_out, otherThanRev>>

NextRev ==
    \/ RevNextLine
    \/ RevNextNone

\* A line without its trailing newline, if it has one.
StripNl(line) ==
    IF line # <<>> /\ Last(line) = NL THEN SubSeq(line, 1, Len(line) - 1) ELSE line

\* The lines of the range [min_pos, max_pos) in file order, without their
\* newlines.
RangeLines(f, min_pos, max_pos) ==
    LET ls == Lines(SubSeq(f, min_pos + 1, max_pos))
    IN [i \in 1..Len(ls) |-> ls[i].text]

\* C18: over a range [min_pos, max_pos) the reader emits the lines of the
\* range in reverse file order, and every emitted line ends with a newline,
\* except possibly the last emitted (earliest) one, and that one only when
\* min_pos is not at a line boundary.
C18_ReverseLinesEndWithNewline ==
    rv_pc = "eof" =>
        /\ [i \in 1..Len(rv_out) |-> StripNl(rv_out[i])]
               = Reverse(RangeLines(rv_file, rv_min, rv_max))
        /\ \A i \in 1..Len(rv_out) :
               \/ rv_out[i] # <<>> /\ Last(rv_out[i]) = NL
               \/ /\ i = Len(rv_out)
                  /\ rv_min > 0
                  /\ rv_file[rv_min] # NL

\* C19: over the whole of a byte slice B, the emitted lines concatenated in
\* the reverse of their emission order yield B, up to the trailing newline
\* of a line: line by line and newlines apart, they are the lines of B.
C19_ReverseRoundTrip ==
    (rv_pc = "eof" /\ rv_min = 0 /\ rv_max = Len(rv_file)) =>
        Reverse([i \in 1..Len(rv_out) |-> StripNl(rv_out[i])])
            = RangeLines(rv_file, 0, Len(rv_file))

\* ---- the streams ----

IdleStream ==
    /\ rpc = "none"
    /\ st_file = <<>>
    /\ appends = 0
    /\ req_start = NoTime
    /\ req_stop = NoTime
    /\ req_follow = "Noop"
    /\ ctx = FALSE
    /\ cancelled_at = ""
    /\ fwd_pc = "idle"
    /\ fwd_max_offset = 0
    /\ fwd_pos = 0
    /\ fwd_limit = NoLimit
    /\ fwd_buf = <<>>
    /\ fwd_cut = FALSE
    /\ fwd_tail_pos = 0
    /\ fwd_tail_start = 0
    /\ fwd_notify = <<>>
    /\ fwd_out = <<>>
    /\ fwd_stop = ""
    /\ bwd_pc = "idle"
    /\ bwd_start = 0
    /\ bwd_end = 0
    /\ bwd_pos = 0
    /\ bwd_buf = <<>>
    /\ bwd_out = <<>>
    /\ bwd_stop = ""

\* A StreamForward or a StreamBackward request on any file: the task has
\* been spawned with a fresh child token and an empty channel.
InitStream ==
    /\ rpc \in {"StreamForward", "StreamBackward"}
    /\ st_file \in StreamFiles
    /\ appends = 0
    /\ req_start \in {NoTime} \cup (1..(MaxTs + 1))
    /\ req_stop \in {NoTime} \cup (1..MaxTs)
    /\ req_follow \in IF rpc = "StreamForward" THEN {"Noop", "Default", "End"} ELSE {"Noop"}
    /\ ctx = FALSE
    /\ cancelled_at = ""
    /\ fwd_pc = IF rpc = "StreamForward" THEN "setup" ELSE "idle"
    /\ fwd_max_offset = 0
    /\ fwd_pos = 0
    /\ fwd_limit = NoLimit
    /\ fwd_buf = <<>>
    /\ fwd_cut = FALSE
    /\ fwd_tail_pos = 0
    /\ fwd_tail_start = 0
    /\ fwd_notify = <<>>
    /\ fwd_out = <<>>
    /\ fwd_stop = ""
    /\ bwd_pc = IF rpc = "StreamBackward" THEN "setup" ELSE "idle"
    /\ bwd_start = 0
    /\ bwd_end = 0
    /\ bwd_pos = 0
    /\ bwd_buf = <<>>
    /\ bwd_out = <<>>
    /\ bwd_stop = ""

\* The server shuts down: the token of the stream is cancelled.
Cancel ==
    /\ rpc # "none"
    /\ ~ctx
    /\ ctx' = TRUE
    /\ cancelled_at' = IF rpc = "StreamForward" THEN fwd_pc ELSE bwd_pc
    /\ UNCHANGED <<reqVars, st_file, appends, fwdVars, bwdVars>>
    /\ UNCHANGED otherThanStream

\* The file ends at a line boundary.
AtLineBoundary == IF Len(st_file) = 0 THEN TRUE ELSE Last(st_file) = NL

\* The container runtime appends a line; a registered notify watcher
\* reports a Modify event.
AppendLine ==
    /\ rpc # "none"
    /\ appends < MaxAppends
    /\ AtLineBoundary
    /\ appends' = appends + 1
    /\ st_file' = st_file \o AppendedLine(appends + 1)
    /\ fwd_notify' = IF fwd_pc \in {"tail", "lines"}
                       THEN Append(fwd_notify, "Modify") ELSE fwd_notify
    /\ UNCHANGED <<reqVars, ctx, cancelled_at, fwd_pc, fwd_max_offset,
                   fwd_pos, fwd_limit, fwd_buf, fwd_cut, fwd_tail_pos,
                   fwd_tail_start, fwd_out, fwd_stop, bwdVars>>
    /\ UNCHANGED otherThanStream

\* The bytes of the unfinished last line of the file.
PartialLine == SubSeq(st_file, memrchr_nl(st_file, Len(st_file)) + 2, Len(st_file))

\* The container runtime writes the beginning of a line - everything but the
\* newline, or but the last byte of the message and the newline; the
\* notify watcher reports a Modify event.
AppendPartial ==
    /\ rpc # "none"
    /\ appends < MaxAppends
    /\ AtLineBoundary
    /\ \E cut \in 1..2 :
          LET line == AppendedLine(appends + 1)
          IN st_file' = st_file \o SubSeq(line, 1, Len(line) - cut)
    /\ fwd_notify' = IF fwd_pc \in {"tail", "lines"}
                       THEN Append(fwd_notify, "Modify") ELSE fwd_notify
    /\ UNCHANGED <<reqVars, appends, ctx, cancelled_at, fwd_pc, fwd_max_offset,
                   fwd_pos, fwd_limit, fwd_buf, fwd_cut, fwd_tail_pos,
                   fwd_tail_start, fwd_out, fwd_stop, bwdVars>>
    /\ UNCHANGED otherThanStream

\* The container runtime writes the rest of the line with its newline;
\* the notify watcher reports a Modify event.
AppendRest ==
    /\ rpc # "none"
    /\ ~AtLineBoundary
    /\ LET line == AppendedLine(appends + 1)
       IN st_file' = st_file \o SubSeq(line, Len(PartialLine) + 1, Len(line))
    /\ appends' = appends + 1
    /\ fwd_notify' = IF fwd_pc \in {"tail", "lines"}
                       THEN Append(fwd_notify, "Modify") ELSE fwd_notify
    /\ UNCHANGED <<reqVars, ctx, cancelled_at, fwd_pc, fwd_max_offset,
                   fwd_pos, fwd_limit, fwd_buf, fwd_cut, fwd_tail_pos,
                   fwd_tail_start, fwd_out, fwd_stop, bwdVars>>
    /\ UNCHANGED otherThanStream

\* ---- stream_forward.rs ----

\* A setup in which followFrom = End does not override the time window.
FwdSetupMutant ==
    /\ fwd_pc = "setup"
    /\ LET max_offset == Len(st_file)
           since == find_nearest_offset_since(st_file, req_start, 0, max_offset)
           use_since == req_start # NoTime
           start_pos == IF req_start # NoTime THEN since.byte_offset
                        ELSE 0
           use_until == req_stop # NoTime
           until == find_nearest_offset_until(st_file, req_stop, start_pos, max_offset)
       IN /\ fwd_max_offset' = max_offset
          /\ IF (use_since /\ ~since.some) \/ (use_until /\ ~until.some)
               THEN \* return Ok(None): no records, exit early
                    /\ fwd_pc' = "closed"
                    /\ fwd_stop' = "empty"
                    /\ UNCHANGED <<fwd_pos, fwd_limit>>
               ELSE /\ fwd_pc' = "scan"
                    /\ fwd_pos' = start_pos
                    /\ fwd_limit' = IF use_until
                                      THEN until.byte_offset + until.line_length
                                      ELSE NoLimit
                    /\ UNCHANGED fwd_stop
    /\ UNCHANGED <<reqVars, st_file, appends, ctx, cancelled_at, fwd_buf,
                   fwd_cut, fwd_tail_pos, fwd_tail_start, fwd_notify, fwd_out,
                   bwdVars>>
    /\ UNCHANGED otherThanStream

\* setup_fs_watcher up to the search: start_pos and take_length.
FwdSetup ==
    /\ fwd_pc = "setup"
    /\ LET max_offset == Len(st_file)
           since == find_nearest_offset_since(st_file, req_start, 0, max_offset)
           use_since == req_follow # "End" /\ req_start # NoTime
           start_pos == IF req_follow = "End" THEN max_offset
                        ELSE IF req_start # NoTime THEN since.byte_offset
                        ELSE 0
           use_until == req_follow # "End" /\ req_stop # NoTime
           until == find_nearest_offset_until(st_file, req_stop, start_pos, max_offset)
       IN /\ fwd_max_offset' = max_offset
          /\ IF (use_since /\ ~since.some) \/ (use_until /\ ~until.some)
               THEN \* return Ok(None): no records, exit early
                    /\ fwd_pc' = "closed"
                    /\ fwd_stop' = "empty"
                    /\ UNCHANGED <<fwd_pos, fwd_limit>>
               ELSE /\ fwd_pc' = "scan"
                    /\ fwd_pos' = start_pos
                    /\ fwd_limit' = IF use_until
                                      THEN until.byte_offset + until.line_length
                                      ELSE NoLimit
                    /\ UNCHANGED fwd_stop
    /\ UNCHANGED <<reqVars, st_file, appends, ctx, cancelled_at, fwd_buf,
                   fwd_cut, fwd_tail_pos, fwd_tail_start, fwd_notify, fwd_out,
                   bwdVars>>
    /\ UNCHANGED otherThanStream

\* The bytes the initial-scan reader can still deliver.
FwdAvail ==
    LET end == IF fwd_limit = NoLimit THEN Len(st_file) ELSE Min2(fwd_limit, Len(st_file))
    IN SubSeq(st_file, fwd_pos + 1, end)

\* searcher.search_reader: one read through TermReader and the lines it
\* completes.  A read that returns 0 (cancelled, or end of input) ends the
\* search.
FwdRead ==
    /\ fwd_pc = "scan"
    /\ IF ctx \/ FwdAvail = <<>>
         THEN LET s == search_flush(fwd_buf, fwd_out)
              IN /\ fwd_out' = s.sent
                 /\ fwd_buf' = <<>>
                 /\ fwd_cut' = (ctx /\ FwdAvail # <<>>)
                 /\ fwd_pc' = IF s.panicked THEN "closed" ELSE "postscan"
                 /\ fwd_stop' = IF s.panicked THEN "panic" ELSE fwd_stop
                 /\ UNCHANGED fwd_pos
         ELSE \E n \in ReadSizes(FwdAvail) :
                LET s == search_buffer(fwd_buf \o SubSeq(FwdAvail, 1, n), fwd_out)
                IN /\ fwd_out' = s.sent
                   /\ fwd_buf' = s.rest
                   /\ fwd_pos' = fwd_pos + n
                   /\ fwd_pc' = IF s.panicked THEN "closed" ELSE "scan"
                   /\ fwd_stop' = IF s.panicked THEN "panic" ELSE fwd_stop
                   /\ UNCHANGED fwd_cut
    /\ UNCHANGED <<reqVars, st_file, appends, ctx, cancelled_at,
                   fwd_max_offset, fwd_limit, fwd_tail_pos, fwd_tail_start,
                   fwd_notify, bwdVars>>
    /\ UNCHANGED otherThanStream

\* setup_fs_watcher after the search: the three early returns, else the
\* notify watcher is registered and the tail reader is opened at the end of
\* the file; listen_for_changes starts.
FwdAfterScan ==
    /\ fwd_pc = "postscan"
    /\ IF ctx
         THEN /\ fwd_pc' = "closed"
              /\ fwd_stop' = IF fwd_cut \/ (fwd_limit = NoLimit /\ req_follow # "Noop")
                              THEN "cancelled" ELSE "eof"
              /\ UNCHANGED <<fwd_tail_pos, fwd_tail_start>>
         ELSE IF fwd_limit # NoLimit \/ req_follow = "Noop"
           THEN /\ fwd_pc' = "closed"
                /\ fwd_stop' = "eof"
                /\ UNCHANGED <<fwd_tail_pos, fwd_tail_start>>
           ELSE /\ fwd_pc' = "tail"
                /\ fwd_tail_pos' = Len(st_file)
                /\ fwd_tail_start' = Len(st_file)
                /\ UNCHANGED fwd_stop
    /\ UNCHANGED <<reqVars, st_file, appends, ctx, cancelled_at,
                   fwd_max_offset, fwd_pos, fwd_limit, fwd_buf, fwd_cut,
                   fwd_notify, fwd_out, bwdVars>>
    /\ UNCHANGED otherThanStream

\* A cancelled branch that leaves the loop without the terminal error.
FwdTailCancelledMutant ==
    /\ fwd_pc = "tail"
    /\ ctx
    /\ fwd_pc' = "closed"
    /\ fwd_stop' = "cancelled"
    /\ UNCHANGED <<reqVars, st_file, appends, ctx, cancelled_at,
                   fwd_max_offset, fwd_pos, fwd_limit, fwd_buf, fwd_cut,
                   fwd_tail_pos, fwd_tail_start, fwd_notify, fwd_out,
                   bwdVars>>
    /\ UNCHANGED otherThanStream

\* listen_for_changes, select! branch ctx.cancelled(): the terminal error.
FwdTailCancelled ==
    /\ fwd_pc = "tail"
    /\ ctx
    /\ fwd_out' = Append(fwd_out, shutdown_status)
    /\ fwd_pc' = "closed"
    /\ fwd_stop' = "cancelled"
    /\ UNCHANGED <<reqVars, st_file, appends, ctx, cancelled_at,
                   fwd_max_offset, fwd_pos, fwd_limit, fwd_buf, fwd_cut,
                   fwd_tail_pos, fwd_tail_start, fwd_notify, bwdVars>>
    /\ UNCHANGED otherThanStream

\* listen_for_changes, select! branch output_rx.recv(): a Modify event
\* starts the loop over the lines of log_file_reader.
FwdTailEvent ==
    /\ fwd_pc = "tail"
    /\ fwd_notify # <<>>
    /\ fwd_notify' = Tail(fwd_notify)
    /\ fwd_pc' = IF Head(fwd_notify) = "Modify" THEN "lines" ELSE "tail"
    /\ UNCHANGED <<reqVars, st_file, appends, ctx, cancelled_at,
                   fwd_max_offset, fwd_pos, fwd_limit, fwd_buf, fwd_cut,
                   fwd_tail_pos, fwd_tail_start, fwd_out, fwd_stop, bwdVars>>
    /\ UNCHANGED otherThanStream

\* BufRead::lines: the line without its "\n".
strip_newline(raw) ==
    IF raw # <<>> /\ Last(raw) = NL THEN SubSeq(raw, 1, Len(raw) - 1) ELSE raw

\* One turn of `for line in log_file_reader.lines()`: the next line is
\* read; a cancelled token breaks out of the outer loop, otherwise the line
\* is searched (search_slice) and its record sent.
FwdTailLine ==
    /\ fwd_pc = "lines"
    /\ LET raw == read_line(st_file, fwd_tail_pos)
       IN IF raw = <<>>
            THEN /\ fwd_pc' = "tail"
                 /\ UNCHANGED <<fwd_tail_pos, fwd_out, fwd_stop>>
            ELSE /\ fwd_tail_pos' = fwd_tail_pos + Len(raw)
                 /\ IF ctx
                      THEN \* break 'outer
                           /\ fwd_pc' = "closed"
                           /\ fwd_stop' = "cancelled"
                           /\ UNCHANGED fwd_out
                      ELSE LET s == search_flush(strip_newline(raw), fwd_out)
                           IN /\ fwd_out' = s.sent
                              /\ fwd_pc' = IF s.panicked THEN "closed" ELSE "lines"
                              /\ fwd_stop' = IF s.panicked THEN "panic" ELSE fwd_stop
    /\ UNCHANGED <<reqVars, st_file, appends, ctx, cancelled_at,
                   fwd_max_offset, fwd_pos, fwd_limit, fwd_buf, fwd_cut,
                   fwd_tail_start, fwd_notify, bwdVars>>
    /\ UNCHANGED otherThanStream

\* ---- stream_backward.rs ----

\* stream_backward_internal up to the search: start_pos and end_pos.
BwdSetup ==
    /\ bwd_pc = "setup"
    /\ LET max_offset == Len(st_file)
           since == find_nearest_offset_since(st_file, req_start, 0, max_offset)
           until == find_nearest_offset_until(st_file, req_stop, 0, max_offset)
       IN IF (req_start # NoTime /\ ~since.some) \/ (req_stop # NoTime /\ ~until.some)
            THEN \* return Ok(()): no records, exit early
                 /\ bwd_pc' = "closed"
                 /\ bwd_stop' = "empty"
                 /\ UNCHANGED <<bwd_start, bwd_end>>
            ELSE /\ bwd_pc' = "scan"
                 /\ bwd_start' = IF req_start # NoTime THEN since.byte_offset ELSE 0
                 /\ bwd_end' = IF req_stop # NoTime
                                 THEN until.byte_offset + until.line_length
                                 ELSE max_offset
                 /\ UNCHANGED bwd_stop
    /\ UNCHANGED <<reqVars, st_file, appends, ctx, cancelled_at, fwdVars,
                   bwd_pos, bwd_buf, bwd_out>>
    /\ UNCHANGED otherThanStream

\* The bytes the reverse reader can still deliver.
BwdAvail ==
    LET all == ReverseBytes(st_file, bwd_start, bwd_end)
    IN SubSeq(all, bwd_pos + 1, Len(all))

\* searcher.search_reader over TermReader(ReverseLineReader): one read and
\* the lines it completes; a read that returns 0 ends the search, the
\* function returns Ok(()) and the sender is dropped.
BwdRead ==
    /\ bwd_pc = "scan"
    /\ IF ctx \/ BwdAvail = <<>>
         THEN LET s == search_flush(bwd_buf, bwd_out)
              IN /\ bwd_out' = s.sent
                 /\ bwd_buf' = <<>>
                 /\ bwd_pc' = "closed"
                 /\ bwd_stop' = IF s.panicked THEN "panic"
                                ELSE IF ctx /\ BwdAvail # <<>> THEN "cancelled"
                                ELSE "eof"
                 /\ UNCHANGED bwd_pos
         ELSE \E n \in ReadSizes(BwdAvail) :
                LET s == search_buffer(bwd_buf \o SubSeq(BwdAvail, 1, n), bwd_out)
                IN /\ bwd_out' = s.sent
                   /\ bwd_buf' = s.rest
                   /\ bwd_pos' = bwd_pos + n
                   /\ bwd_pc' = IF s.panicked THEN "closed" ELSE "scan"
                   /\ bwd_stop' = IF s.panicked THEN "panic" ELSE bwd_stop
    /\ UNCHANGED <<reqVars, st_file, appends, ctx, cancelled_at, fwdVars,
                   bwd_start, bwd_end>>
    /\ UNCHANGED otherThanStream

NextStream ==
    \/ Cancel
    \/ AppendLine
    \/ FwdSetup
    \/ FwdRead
    \/ FwdAfterScan
    \/ FwdTailCancelled
    \/ FwdTailEvent
    \/ FwdTailLine
    \/ BwdSetup
    \/ BwdRead

\* The forward streamer alone.
NextForward ==
    \/ Cancel
    \/ AppendLine
    \/ FwdSetup
    \/ FwdRead
    \/ FwdAfterScan
    \/ FwdTailCancelled
    \/ FwdTailEvent
    \/ FwdTailLine

\* The forward streamer on a file that is also written to in pieces.
NextTailWrites ==
    \/ NextForward
    \/ AppendPartial
    \/ AppendRest

\* ---- reference semantics of a time window ----

InWindow(t, start, stop) ==
    /\ start = NoTime \/ start <= t
    /\ stop = NoTime \/ t <= stop

\* A file of well-formed CRI lines only.
WellFormed(f) ==
    \A i \in 1..Len(Lines(f)) :
        LET text == Lines(f)[i].text
        IN /\ parse_timestamp(text) # 0
           /\ Len(text) >= 11
           /\ SubSeq(text, 2, 11) = <<SP, "s", "t", "d", "o", "u", "t", SP, "F", SP>>

\* The record of a well-formed line: its timestamp and its message.
RecordOf(l) == RecordItem(parse_timestamp(l.text), SubSeq(l.text, 12, Len(l.text)))

\* One record for each line of the window, in file order.
ExpectedForward(f, start, stop) ==
    LET ls == SelectSeq(Lines(f), LAMBDA l : InWindow(parse_timestamp(l.text), start, stop))
    IN [i \in 1..Len(ls) |-> RecordOf(ls[i])]

\* Everything the searcher sends for a whole input.
search_all(bytes) ==
    LET s == search_buffer(bytes, <<>>)
    IN IF s.panicked THEN s.sent ELSE search_flush(s.rest, s.sent).sent

\* What stream_backward sends for a request when nothing interrupts it.
BackwardRecords(f, start, stop) ==
    LET max_offset == Len(f)
        since == find_nearest_offset_since(f, start, 0, max_offset)
        until == find_nearest_offset_until(f, stop, 0, max_offset)
    IN IF (start # NoTime /\ ~since.some) \/ (stop # NoTime /\ ~until.some)
         THEN <<>>
         ELSE search_all(ReverseBytes(f,
                  IF start # NoTime THEN since.byte_offset ELSE 0,
                  IF stop # NoTime THEN until.byte_offset + until.line_length
                                   ELSE max_offset))

StatusCount(s) == Len(SelectSeq(s, LAMBDA it : ~it.ok))

\* C1: a record stream that stopped because its token was cancelled has
\* sent, as its last item, exactly one Err with status UNAVAILABLE - also
\* when the cancellation came before the first record or during the initial
\* scan; the channel is never closed silently after a cancellation.
C1_CancelledStreamEndsWithUnavailable ==
    /\ (fwd_pc = "closed" /\ fwd_stop = "cancelled")
          => (fwd_out # <<>> /\ Last(fwd_out) = shutdown_status /\ StatusCount(fwd_out) = 1)
    /\ (bwd_pc = "closed" /\ bwd_stop = "cancelled")
          => (bwd_out # <<>> /\ Last(bwd_out) = shutdown_status /\ StatusCount(bwd_out) = 1)

\* C2: on a file of well-formed lines in non-decreasing timestamp order,
\* with followFrom = Noop, a forward stream that ran undisturbed to its end
\* has sent exactly one record for each line with startTime <= t <= stopTime,
\* in file order, and no error item.
C2_ForwardEmitsTheWindow ==
    (/\ rpc = "StreamForward"
     /\ req_follow = "Noop"
     /\ fwd_pc = "closed"
     /\ ~ctx
     /\ appends = 0
     /\ WellFormed(st_file)
     /\ Monotone(st_file))
        => fwd_out = ExpectedForward(st_file, req_start, req_stop)

\* C3: for every file and every window, what the backward streamer sends is
\* the reverse of what the forward streamer with followFrom = Noop sends for
\* the same request.
C3_BackwardIsReverseOfForward ==
    (/\ rpc = "StreamForward"
     /\ req_follow = "Noop"
     /\ fwd_pc = "closed"
     /\ fwd_stop \in {"eof", "empty"}
     /\ ~ctx
     /\ appends = 0)
        => BackwardRecords(st_file, req_start, req_stop) = Reverse(fwd_out)

\* The records among the items of a channel.
Records(s) == SelectSeq(s, LAMBDA it : it.ok)

\* The forward task has entered listen_for_changes.
TailReached ==
    \/ fwd_pc \in {"tail", "lines"}
    \/ fwd_pc = "closed" /\ cancelled_at \in {"tail", "lines"}

RecordsOfRange(from, to) == ExpectedForward(SubSeq(st_file, from + 1, to), NoTime, NoTime)

\* C13: with followFrom = End, whatever startTime and stopTime are, no record
\* is sent for a line that was in the file when the stream opened it; the
\* lines appended since the tail reader was opened get one record each, in
\* file order, after the records of the lines that were appended before and
\* read by the initial scan; once the tail loop has caught up all of them
\* have been sent.
C13_FollowEndEmitsOnlyAppendedLines ==
    (rpc = "StreamForward" /\ req_follow = "End") =>
        LET scanned == RecordsOfRange(fwd_max_offset, fwd_tail_start)
            tailed == RecordsOfRange(fwd_tail_start, Len(st_file))
        IN /\ fwd_pc = "setup" => fwd_out = <<>>
           /\ (fwd_pc # "setup" /\ ~TailReached) =>
                 IsPrefix(Records(fwd_out), RecordsOfRange(fwd_max_offset, Len(st_file)))
           /\ TailReached =>
                 \E k \in 0..Len(scanned) :
                     IsPrefix(Records(fwd_out), SubSeq(scanned, 1, k) \o tailed)
           /\ (fwd_pc = "tail" /\ fwd_notify = <<>> /\ ~ctx) =>
                 \E k \in 0..Len(scanned) : fwd_out = SubSeq(scanned, 1, k) \o tailed

\* A stream with followFrom = End on a non-empty file, with a startTime later
\* and a stopTime earlier than the appended lines, has sent the records of
\* two lines appended while it was tailing.
C13_Witness ==
    /\ rpc = "StreamForward"
    /\ req_follow = "End"
    /\ req_start = MaxTs + 1
    /\ req_stop = 1
    /\ fwd_max_offset > 0
    /\ fwd_tail_start = fwd_max_offset
    /\ fwd_pc = "tail"
    /\ fwd_notify = <<>>
    /\ ~ctx
    /\ fwd_out = <<RecordItem(MaxTs, <<"a">>), RecordItem(MaxTs, <<"a", "a">>)>>

\* C14: a forward stream ends after its initial scan only if a stopTime
\* bound applies or followFrom = Noop; otherwise, whatever startTime is, it
\* stays open until it is cancelled or fails.
C14_FollowStaysOpenWithoutStopTime ==
    (rpc = "StreamForward" /\ fwd_pc = "closed") =>
        \/ req_follow # "End" /\ req_stop # NoTime
        \/ req_follow = "Noop"
        \/ ctx
        \/ fwd_stop = "panic"

\* C29: in the tail loop of the forward streamer cancellation is handled
\* before a notify event that is ready with it, and also when it arrives
\* while appended lines are being processed: a task that was cancelled in
\* listen_for_changes and has ended has sent the terminal UNAVAILABLE error
\* as its last item.
C29_TailCancellationSendsUnavailable ==
    (rpc = "StreamForward" /\ fwd_pc = "closed" /\ cancelled_at \in {"tail", "lines"}
        /\ fwd_stop = "cancelled")
        => (fwd_out # <<>> /\ Last(fwd_out) = shutdown_status)

\* C35: a line that cannot be turned into a record - a CRI line whose first
\* token is not a timestamp - gives no record and does not stop the stream:
\* no streaming task aborts, and a forward stream over the whole file that
\* ran undisturbed to its end has sent a record for every well-formed line.
C35_UnparseableLineIsSkipped ==
    /\ fwd_stop # "panic"
    /\ bwd_stop # "panic"
    /\ (/\ rpc = "StreamForward"
        /\ req_follow = "Noop"
        /\ req_start = NoTime
        /\ req_stop = NoTime
        /\ fwd_pc = "closed"
        /\ ~ctx
        /\ appends = 0)
          => Len(fwd_out) >= Len(SelectSeq(Lines(st_file),
                                           LAMBDA l : WellFormed(l.text \o <<NL>>)))

\* C34: with followFrom = Default and no time bound, on a file of
\* well-formed lines, every line that is in the file at the start or is
\* appended before the cancellation gets exactly one record, in file order:
\* what has been sent is a prefix of the records of the lines of the file,
\* and once the tail loop has caught up it is all of them - no line appended
\* between the end of the initial scan and the opening of the tail reader is
\* skipped, none is sent twice.
C34_FollowEmitsEveryLineOnce ==
    (/\ rpc = "StreamForward"
     /\ req_follow = "Default"
     /\ req_start = NoTime
     /\ req_stop = NoTime
     /\ WellFormed(st_file)
     /\ ~ctx)
        => /\ IsPrefix(fwd_out, ExpectedForward(st_file, NoTime, NoTime))
           /\ (fwd_pc = "tail" /\ fwd_notify = <<>>)
                 => fwd_out = ExpectedForward(st_file, NoTime, NoTime)

\* The end of the last complete line of the file.
CompleteEnd == memrchr_nl(st_file, Len(st_file)) + 1

\* C30: in the tail loop the forward streamer sends records only for
\* complete, newline-terminated lines: the records sent are records of the
\* complete lines appended since the tail reader was opened, in order - bytes
\* without their newline give no record - and once the loop has caught up
\* with a file that ends in a newline, every appended line has given
\* exactly one record, carrying the whole line.
C30_TailEmitsCompleteLinesOnly ==
    (/\ rpc = "StreamForward"
     /\ req_follow = "End"
     /\ TailReached
     /\ fwd_tail_start = fwd_max_offset)
        => /\ IsPrefix(Records(fwd_out), RecordsOfRange(fwd_tail_start, CompleteEnd))
           /\ (fwd_pc = "tail" /\ fwd_notify = <<>> /\ ~ctx /\ AtLineBoundary)
                 => fwd_out = RecordsOfRange(fwd_tail_start, Len(st_file))

----------------------------------------------------------------------------
(* util/reader.rs: LogTrimmerReader (CRI format)                            *)

\* Bounds of the trimmer model.
MaxLimit == 2       \* truncate_at_bytes ranges over 0..MaxLimit
MaxFill == 2        \* a short read of the wrapped reader returns 1..MaxFill bytes

\* Capacity of the BufReader around the wrapped reader.
LOG_TRIMMER_READER_BUFFER_SIZE == 32768

\* The byte of value v as the model writes it: the characters of the files
\* by their own symbol, every other byte by its value.
ByteSym(v) ==
    CASE v = 10 -> NL
      [] v = 13 -> CR
      [] v = 31 -> US
      [] v = 32 -> SP
      [] OTHER -> "x" \o ToString(v)

\* u64::to_be_bytes; the counts of the model stay below 2^31, so the four
\* high bytes are zero.
to_be_bytes(n) ==
    [i \in 1..8 |-> ByteSym(IF i <= 4 THEN 0 ELSE (n \div (256 ^ (8 - i))) % 256)]

\* append_truncation_marker_raw
append_truncation_marker_raw(buf, truncated_bytes) ==
    buf \o to_be_bytes(truncated_bytes) \o <<US, NL>>

\* The lines the trimmer is run on: CRI lines with messages of several
\* lengths, and lines that end before the third space.
TrimAlphabet == <<"a", "b", "c", "d", "e", "f", "g", "h", "i", "j", "k", "l">>
TrimMsgLens == {0, 1, 2, 3, 11, 12}
TrimMessage(k) == SubSeq(TrimAlphabet, 1, k)
TrimTemplates ==
    {CriLine(1, TrimMessage(k)) : k \in TrimMsgLens}
        \cup JunkLines \cup {<<TsSym(1), SP, "F", SP, NL>>}
\* The wrapped reader holds one line or two.
TrimSources == TrimTemplates \cup {a \o b : a, b \in TrimTemplates}

\* memchr / memchr2: the first index from `from` on of a byte of `set`,
\* 0 when there is none.
RECURSIVE find_byte(_, _, _)
find_byte(av, from, set) ==
    IF from > Len(av) THEN 0
    ELSE IF av[from] \in set THEN from
    ELSE find_byte(av, from + 1, set)

\* The locals of refill_buffer_cri at its start.
NewLine == [found_header |-> FALSE, space_count |-> 0, current_msg_len |-> 0,
            truncated_bytes |-> 0, total_discarded |-> 0, fills |-> 0]

\* refill_buffer_cri: `while consumed < available.len()` on the bytes
\* fill_buf returned.
RECURSIVE cri_while(_, _, _, _, _)
cri_while(av, consumed, ln, ibuf, limit) ==
    IF consumed >= Len(av)
      THEN [ln |-> ln, internal_buf |-> ibuf, consumed |-> consumed,
            line_complete |-> FALSE, truncated |-> FALSE, newline_consumed |-> FALSE]
    ELSE IF ~ln.found_header
      THEN LET idx == find_byte(av, consumed + 1, {NL, SP})
           IN IF idx = 0
                THEN [ln |-> ln,
                      internal_buf |-> ibuf \o SubSeq(av, consumed + 1, Len(av)),
                      consumed |-> Len(av),
                      line_complete |-> FALSE, truncated |-> FALSE,
                      newline_consumed |-> FALSE]
              ELSE IF av[idx] = SP
                THEN cri_while(av, idx,
                               [ln EXCEPT !.space_count = @ + 1,
                                          !.found_header = (ln.space_count + 1 = 3)],
                               ibuf \o SubSeq(av, consumed + 1, idx), limit)
              ELSE [ln |-> ln,
                    internal_buf |-> ibuf \o SubSeq(av, consumed + 1, idx),
                    consumed |-> idx,
                    line_complete |-> TRUE, truncated |-> FALSE,
                    newline_consumed |-> FALSE]
    ELSE LET start == consumed
             newline == find_byte(av, start + 1, {NL})
             bytes_until_newline == IF newline = 0 THEN Len(av) - start
                                    ELSE newline - 1 - start
             remaining == IF limit > ln.current_msg_len
                            THEN limit - ln.current_msg_len ELSE 0
             truncated == limit > 0 /\ bytes_until_newline > remaining
             take == IF truncated THEN remaining ELSE bytes_until_newline
             ibuf1 == ibuf \o SubSeq(av, start + 1, start + take)
             ln1 == [ln EXCEPT !.current_msg_len = @ + take]
         IN IF truncated
              THEN [ln |-> [ln1 EXCEPT !.truncated_bytes = bytes_until_newline - take],
                    internal_buf |-> ibuf1,
                    consumed |-> IF newline # 0 THEN newline ELSE Len(av),
                    line_complete |-> TRUE, truncated |-> TRUE,
                    newline_consumed |-> newline # 0]
            ELSE IF newline # 0
              THEN [ln |-> ln1, internal_buf |-> Append(ibuf1, NL),
                    consumed |-> newline,
                    line_complete |-> TRUE, truncated |-> FALSE,
                    newline_consumed |-> FALSE]
            ELSE [ln |-> ln1, internal_buf |-> ibuf1, consumed |-> Len(av),
                  line_complete |-> FALSE, truncated |-> FALSE,
                  newline_consumed |-> FALSE]

\* What one read of the wrapped reader may return: a short read, or as much
\* as the BufReader has room for.
ReadLens(rem) ==
    {k \in 1..MaxFill : k <= rem} \cup {Min2(LOG_TRIMMER_READER_BUFFER_SIZE, rem)}

\* BufReader::fill_buf: the buffered bytes, or, when the buffer is empty, the
\* bytes of one read of the wrapped reader (none at end of input).
fill_buf ==
    IF tr_input # <<>> THEN {[av |-> tr_input, n |-> 0]}
    ELSE LET rem == Len(tr_source) - tr_read
         IN IF rem = 0 THEN {[av |-> <<>>, n |-> 0]}
            ELSE {[av |-> SubSeq(tr_source, tr_read + 1, tr_read + k), n |-> k] :
                     k \in ReadLens(rem)}

IdleTrim ==
    /\ tr_pc = "idle"
    /\ tr_source = <<>>
    /\ tr_limit = 0
    /\ tr_read = 0
    /\ tr_input = <<>>
    /\ tr_line = NewLine
    /\ internal_buf = <<>>
    /\ tr_out = <<>>
    /\ tr_fills = <<>>

\* LogTrimmerReader::new(reader, FileFormat::CRI, truncate_at_bytes)
InitTrim ==
    /\ tr_pc = "refill"
    /\ tr_source \in TrimSources
    /\ tr_limit \in 0..MaxLimit
    /\ tr_read = 0
    /\ tr_input = <<>>
    /\ tr_line = NewLine
    /\ internal_buf = <<>>
    /\ tr_out = <<>>
    /\ tr_fills = <<>>

\* refill_buffer_cri returns Ok(true): read() hands the buffer out, and the
\* next call starts by clearing it.
TrimReturn(buf, fills) ==
    /\ tr_out' = Append(tr_out, buf)
    /\ tr_fills' = Append(tr_fills, fills)
    /\ internal_buf' = <<>>
    /\ tr_line' = NewLine
    /\ tr_pc' = "refill"

\* refill_buffer_cri: one turn of its `loop`: fill_buf, the while loop over
\* the available bytes, consume, and the returns after it.
TrimRefill ==
    /\ tr_pc = "refill"
    /\ \E f \in fill_buf :
         LET ln0 == [tr_line EXCEPT !.fills = @ + 1]
         IN IF f.av = <<>>
              THEN /\ UNCHANGED <<tr_read, tr_input>>
                   /\ IF internal_buf # <<>>
                        THEN TrimReturn(internal_buf, ln0.fills)
                        ELSE /\ tr_pc' = "eof"
                             /\ UNCHANGED <<tr_line, internal_buf, tr_out, tr_fills>>
              ELSE LET r == cri_while(f.av, 0, ln0, internal_buf, tr_limit)
                   IN /\ tr_read' = tr_read + f.n
                      /\ tr_input' = SubSeq(f.av, r.consumed + 1, Len(f.av))
                      /\ IF r.truncated /\ r.newline_consumed
                           THEN TrimReturn(
                                    append_truncation_marker_raw(r.internal_buf,
                                                                 r.ln.truncated_bytes),
                                    r.ln.fills)
                         ELSE IF r.truncated
                           THEN /\ tr_pc' = "discard"
                                /\ internal_buf' = r.internal_buf
                                /\ tr_line' = r.ln
                                /\ UNCHANGED <<tr_out, tr_fills>>
                         ELSE IF r.line_complete
                           THEN TrimReturn(r.internal_buf, r.ln.fills)
                         ELSE /\ internal_buf' = r.internal_buf
                              /\ tr_line' = r.ln
                              /\ UNCHANGED <<tr_pc, tr_out, tr_fills>>
    /\ UNCHANGED <<tr_source, tr_limit>>
    /\ UNCHANGED otherThanTrim

\* A discard that counts the newline among the discarded message bytes.
TrimDiscardMutant ==
    /\ tr_pc = "discard"
    /\ \E f \in fill_buf :
         LET ln0 == [tr_line EXCEPT !.fills = @ + 1]
             index == find_byte(f.av, 1, {NL})
         IN IF f.av = <<>>
              THEN /\ UNCHANGED <<tr_read, tr_input>>
                   /\ TrimReturn(
                          append_truncation_marker_raw(internal_buf,
                              ln0.truncated_bytes + ln0.total_discarded),
                          ln0.fills)
            ELSE IF index # 0
              THEN /\ tr_read' = tr_read + f.n
                   /\ tr_input' = SubSeq(f.av, index + 1, Len(f.av))
                   /\ TrimReturn(
                          append_truncation_marker_raw(internal_buf,
                              ln0.truncated_bytes + ln0.total_discarded + index),
                          ln0.fills)
            ELSE /\ tr_read' = tr_read + f.n
                 /\ tr_input' = <<>>
                 /\ tr_line' = [ln0 EXCEPT !.total_discarded = @ + Len(f.av)]
                 /\ UNCHANGED <<tr_pc, internal_buf, tr_out, tr_fills>>
    /\ UNCHANGED <<tr_source, tr_limit>>
    /\ UNCHANGED otherThanTrim

\* discard_rest_of_line, one turn of its loop, and what refill_buffer_cri
\* does with its result: the discarded bytes, less the newline, are added to
\* truncated_bytes and the marker is appended.
TrimDiscard ==
    /\ tr_pc = "discard"
    /\ \E f \in fill_buf :
         LET ln0 == [tr_line EXCEPT !.fills = @ + 1]
             index == find_byte(f.av, 1, {NL})
         IN IF f.av = <<>>
              THEN /\ UNCHANGED <<tr_read, tr_input>>
                   /\ TrimReturn(
                          append_truncation_marker_raw(internal_buf,
                              ln0.truncated_bytes + ln0.total_discarded),
                          ln0.fills)
            ELSE IF index # 0
              THEN /\ tr_read' = tr_read + f.n
                   /\ tr_input' = SubSeq(f.av, index + 1, Len(f.av))
                   /\ TrimReturn(
                          append_truncation_marker_raw(internal_buf,
                              ln0.truncated_bytes + ln0.total_discarded + index - 1),
                          ln0.fills)
            ELSE /\ tr_read' = tr_read + f.n
                 /\ tr_input' = <<>>
                 /\ tr_line' = [ln0 EXCEPT !.total_discarded = @ + Len(f.av)]
                 /\ UNCHANGED <<tr_pc, internal_buf, tr_out, tr_fills>>
    /\ UNCHANGED <<tr_source, tr_limit>>
    /\ UNCHANGED otherThanTrim

NextTrim ==
    \/ TrimRefill
    \/ TrimDiscard

\* ---- reference semantics of the trimmer ----

\* Index of the n-th space of a line from index `from` on, 0 when there are
\* fewer.
RECURSIVE NthSpace(_, _, _)
NthSpace(text, n, from) ==
    LET i == FirstSpace(text, from)
    IN IF i = 0 THEN 0
       ELSE IF n = 1 THEN i
       ELSE NthSpace(text, n - 1, i + 1)

\* What a line (given without its newline) becomes under limit L: the
\* message portion is what follows the third space.
TrimmedLine(text, L) ==
    LET h == NthSpace(text, 3, 1)
        msg == SubSeq(text, h + 1, Len(text))
    IN IF L = 0 \/ h = 0 \/ Len(msg) <= L
         THEN text \o <<NL>>
         ELSE SubSeq(text, 1, h) \o SubSeq(msg, 1, L)
                  \o to_be_bytes(Len(msg) - L) \o <<US, NL>>

ExpectedTrim(src, L) ==
    [i \in 1..Len(Lines(src)) |-> TrimmedLine(Lines(src)[i].text, L)]

\* C15: the trimmer maps each line on its own: a line whose message portion
\* is longer than the limit L > 0 becomes header, first L message bytes and
\* the marker with the count of the discarded message bytes, however many
\* fills it spans; every other line, and every line when L = 0, comes out
\* byte for byte.
C15_TrimmerMapsLinesIndependently ==
    /\ IsPrefix(tr_out, ExpectedTrim(tr_source, tr_limit))
    /\ tr_pc = "eof" => tr_out = ExpectedTrim(tr_source, tr_limit)

\* Two lines were read to the end with L > 0: the first was truncated over
\* three or more fills, the second came out unchanged.
C15_Witness ==
    /\ tr_pc = "eof"
    /\ tr_limit > 0
    /\ Len(tr_out) = 2
    /\ tr_fills[1] >= 3
    /\ tr_out[1] # Lines(tr_source)[1].text \o <<NL>>
    /\ tr_out[2] = Lines(tr_source)[2].text \o <<NL>>

NlCount(bytes) == Len(SelectSeq(bytes, LAMBDA b : b = NL))

\* C16: the output of the trimmer has as many newline bytes as its
\* newline-terminated input, and each buffer it returns is one line: its
\* only newline is its last byte.
C16_TrimmerKeepsLineBreaks ==
    /\ \A i \in 1..Len(tr_out) : NlCount(tr_out[i]) = 1 /\ Last(tr_out[i]) = NL
    /\ tr_pc = "eof" => NlCount(Concat(tr_out)) = NlCount(tr_source)

\* The record the spec gives a well-formed CRI line under limit L.
ExpectedTrimRecord(text, L) ==
    LET msg == SubSeq(text, 12, Len(text))
    IN LogRecord(parse_timestamp(text),
                 IF Len(msg) > L THEN SubSeq(msg, 1, L) ELSE msg,
                 Len(msg), Len(msg) > L)

\* C17: with L > 0, the output of the trimmer for well-formed CRI lines,
\* given to the searcher and process_output, yields one record per line:
\* the first L message bytes, is_truncated and the original size when the
\* message is longer than L, the whole message otherwise.
C17_TrimmedLineYieldsTruncatedRecord ==
    (tr_pc = "eof" /\ tr_limit > 0 /\ WellFormed(tr_source)) =>
        search_all(Concat(tr_out)) =
            [i \in 1..Len(Lines(tr_source)) |->
                ExpectedTrimRecord(Lines(tr_source)[i].text, tr_limit)]

----------------------------------------------------------------------------
(* log_metadata.rs / log_metadata_watcher.rs: the metadata watcher         *)

\* Bounds of the watcher model.
MaxOps == 2         \* file-system operations in a session
MaxSize == 2        \* a file grows up to MaxSize bytes

\* A file name as the tokens LOG_FILE_REGEX splits it into:
\* <pod_name>_<namespace>_<container_name>-<container_id>.log
LogName(pod, ns, cname, cid) == <<pod, "_", ns, "_", cname, "-", cid, ".log">>

FileNames ==
    {LogName("p", "a", "c", "1"), LogName("p", "b", "c", "2"), <<"notes", ".txt">>}

\* LOG_FILE_REGEX.captures(filename)
captures(filename) ==
    IF /\ Len(filename) = 8
       /\ filename[2] = "_" /\ filename[4] = "_" /\ filename[6] = "-"
       /\ filename[8] = ".log"
      THEN [some |-> TRUE, pod_name |-> filename[1], namespace |-> filename[3],
            container_name |-> filename[5], container_id |-> filename[7]]
      ELSE [some |-> FALSE, pod_name |-> "", namespace |-> "",
            container_name |-> "", container_id |-> ""]

\* Vec::contains
contains(v, x) == \E i \in 1..Len(v) : v[i] = x

\* The namespace lists of the Watch requests (empty: every namespace).
NamespaceLists == {<<>>, <<"a">>}

NoSpec == [some |-> FALSE, pod_name |-> "", namespace |-> "",
           container_name |-> "", container_id |-> ""]

\* LogMetadataImpl::get_log_metadata_spec
get_log_metadata_spec_mutant(filepath, namespaces) ==
    LET c == captures(filepath)
    IN IF ~c.some THEN NoSpec
       ELSE c

get_log_metadata_spec(filepath, namespaces) ==
    LET c == captures(filepath)
    IN IF ~c.some THEN NoSpec
       ELSE IF namespaces # <<>> /\ ~contains(namespaces, c.namespace) THEN NoSpec
       ELSE c

\* The directory: the size of every file, Absent for a file that does not
\* exist, Denied for a file that exists and cannot be opened.
Absent == 0 - 1
Denied == 0 - 2

\* LogMetadataImpl::get_file_info: File::open fails with NotFound for a
\* missing file and with PermissionDenied for a file that cannot be opened.
get_file_info(dir, filepath) ==
    IF dir[filepath] = Absent THEN [ok |-> FALSE, kind |-> "NotFound", size |-> 0]
    ELSE IF dir[filepath] = Denied
           THEN [ok |-> FALSE, kind |-> "PermissionDenied", size |-> 0]
    ELSE [ok |-> TRUE, kind |-> "", size |-> dir[filepath]]

\* Items of the watcher's channels.
WatchEvent(type, spec, size) ==
    [ok |-> TRUE, type |-> type, spec |-> spec, size |-> size]
WatchErr(code) == [ok |-> FALSE, type |-> code, spec |-> NoSpec, size |-> 0]

\* A notify event: kind is the variant of EventKind, mode what the variant
\* carries (the RenameMode of Modify(Name(_)), "Data" for a change of the
\* content), paths the paths of the event.
NotifyEvent(kind, mode, paths) == [kind |-> kind, mode |-> mode, paths |-> paths]

\* From<io::Error> for Status, for the errors of the model.
io_error_status(kind) ==
    IF kind = "NotFound" THEN WatchErr("NOT_FOUND") ELSE WatchErr("PERMISSION_DENIED")

\* transform_notify_event with every failure of stat taken as not-found.
transform_notify_eventMutant(event, namespaces, dir) ==
    IF event.paths = <<>> THEN <<>>
    ELSE
    LET path == Head(event.paths)
        metadata_spec == get_log_metadata_spec(path, namespaces)
        file_info == get_file_info(dir, path)
        event_type == CASE event.kind = "Modify" -> "MODIFIED"
                        [] event.kind = "Create" -> "ADDED"
                        [] event.kind = "Remove" -> "DELETED"
                        [] OTHER -> "NONE"
    IN IF event_type = "NONE" THEN <<>>
       ELSE IF ~metadata_spec.some THEN <<>>
       ELSE IF ~file_info.ok
              THEN <<WatchEvent("DELETED", metadata_spec, 0)>>
              ELSE <<WatchEvent(event_type, metadata_spec, file_info.size)>>

\* transform_notify_event: the result is a sequence of at most one item
\* (None: the empty sequence).  Every Modify(_) is MODIFIED, whatever it
\* carries, and only the first path of the event is looked at.
transform_notify_event(event, namespaces, dir) ==
    IF event.paths = <<>> THEN <<>>
    ELSE
    LET path == Head(event.paths)
        metadata_spec == get_log_metadata_spec(path, namespaces)
        file_info == get_file_info(dir, path)
        event_type == CASE event.kind = "Modify" -> "MODIFIED"
                        [] event.kind = "Create" -> "ADDED"
                        [] event.kind = "Remove" -> "DELETED"
                        [] OTHER -> "NONE"
    IN IF event_type = "NONE" THEN <<>>
       ELSE IF ~metadata_spec.some THEN <<>>
       ELSE IF ~file_info.ok
              THEN IF file_info.kind = "NotFound"
                     THEN <<WatchEvent("DELETED", metadata_spec, 0)>>
                     ELSE <<io_error_status(file_info.kind)>>
              ELSE <<WatchEvent(event_type, metadata_spec, file_info.size)>>

\* An index that takes every event as new.
event_index_insertMutant(deduped_events, result) == TRUE

\* event_index.insert(event.clone()): true when the event was not yet in the
\* set, which holds the Ok events kept so far.
event_index_insert(deduped_events, result) == ~contains(deduped_events, result)

\* deduplicate_metadata_events: from the last to the first; an Ok event
\* equal to one already seen is dropped.
RECURSIVE dedup_rev(_, _, _)
dedup_rev(metadata_events, i, deduped_events) ==
    IF i = 0 THEN deduped_events
    ELSE LET result == metadata_events[i]
         IN IF ~result.ok \/ event_index_insert(deduped_events, result)
              THEN dedup_rev(metadata_events, i - 1, <<result>> \o deduped_events)
              ELSE dedup_rev(metadata_events, i - 1, deduped_events)

\* The walk started one entry short of the end of the batch.
deduplicate_metadata_eventsMutant(metadata_events) ==
    IF metadata_events = <<>> THEN <<>>
    ELSE dedup_rev(metadata_events, Len(metadata_events) - 1, <<>>)

deduplicate_metadata_events(metadata_events) ==
    dedup_rev(metadata_events, Len(metadata_events), <<>>)

\* handle_debounced_events on an Ok batch.
RECURSIVE transform_all(_, _, _)
transform_all(events, namespaces, dir) ==
    IF events = <<>> THEN <<>>
    ELSE (IF Head(events).kind \in {"Create", "Modify", "Remove"}
            THEN transform_notify_event(Head(events), namespaces, dir)
            ELSE <<>>)
         \o transform_all(Tail(events), namespaces, dir)

handle_debounced_events(debounced_events, namespaces, dir) ==
    deduplicate_metadata_events(transform_all(debounced_events, namespaces, dir))

\* find_log_files: the files of the directory whose name matches and whose
\* namespace is requested.
find_log_files(dir, namespaces) ==
    {f \in FileNames :
        /\ dir[f] # Absent
        /\ captures(f).some
        /\ namespaces = <<>> \/ contains(namespaces, captures(f).namespace)}

\* The notify watch list holds paths; Directory stands for the log directory.
Directory == <<"logs_dir">>

\* The path get_file_path rebuilds from the spec of an event.
get_file_path(ev) ==
    LogName(ev.spec.pod_name, ev.spec.namespace, ev.spec.container_name,
            ev.spec.container_id)

\* An update_watcher that never unwatches.
update_watcherMutant(ev, watched, dir) ==
    IF ev.type = "ADDED"
      THEN (IF dir[get_file_path(ev)] \notin {Absent, Denied}
              THEN watched \cup {get_file_path(ev)} ELSE watched)
    ELSE watched

\* update_watcher: ADDED watches the file (which fails, silently, when the
\* file is not there or cannot be read), DELETED unwatches it.
update_watcher(ev, watched, dir) ==
    IF ev.type = "ADDED"
      THEN (IF dir[get_file_path(ev)] \notin {Absent, Denied}
              THEN watched \cup {get_file_path(ev)} ELSE watched)
    ELSE IF ev.type = "DELETED" THEN watched \ {get_file_path(ev)}
    ELSE watched

\* update_watcher for every Ok event of a batch, in order.
RECURSIVE update_watcher_all(_, _, _)
update_watcher_all(batch, watched, dir) ==
    IF batch = <<>> THEN watched
    ELSE LET ev == Head(batch)
             w == IF ~ev.ok THEN watched ELSE update_watcher(ev, watched, dir)
         IN update_watcher_all(Tail(batch), w, dir)

\* The raw notify events of an operation on a file: one through the watch
\* on the directory, one through the watch on the file itself.
RawEvents(kind, f, watched) ==
    (IF Directory \in watched THEN <<NotifyEvent(kind, "Data", <<f>>)>> ELSE <<>>)
    \o (IF f \in watched /\ kind # "Create"
          THEN <<NotifyEvent(kind, "Data", <<f>>)>> ELSE <<>>)

\* The notify events of a rename of f to g inside the directory: the two
\* halves of the rename, or the one event that carries both paths.
RenameEvents(f, g, watched) ==
    IF Directory \notin watched THEN {<<>>}
    ELSE {<<NotifyEvent("Modify", "From", <<f>>), NotifyEvent("Modify", "To", <<g>>)>>,
          <<NotifyEvent("Modify", "Both", <<f, g>>)>>}

IdleWatch ==
    /\ w_pc = "idle"
    /\ w_namespaces = <<>>
    /\ w_dir = [f \in FileNames |-> Absent]
    /\ w_watched = {}
    /\ w_pending = <<>>
    /\ internal_rx = <<>>
    /\ log_metadata_tx = <<>>
    /\ w_ctx = FALSE
    /\ w_ops = <<>>

\* A Watch request: LogMetadataWatcher::new, watch() not yet run.
InitWatch ==
    /\ w_pc = "setup"
    /\ w_namespaces \in NamespaceLists
    /\ w_dir \in [FileNames -> {Absent, 0}]
    /\ w_watched = {}
    /\ w_pending = <<>>
    /\ internal_rx = <<>>
    /\ log_metadata_tx = <<>>
    /\ w_ctx = FALSE
    /\ w_ops = <<>>

\* A setup that announces every file it finds with an ADDED event.
SetupNotifyWatcherMutant ==
    /\ w_pc = "setup"
    /\ w_watched' = find_log_files(w_dir, w_namespaces) \cup {Directory}
    /\ w_pc' = "listen"
    /\ LET found == SelectSeq(<<LogName("p", "a", "c", "1"), LogName("p", "b", "c", "2")>>,
                               LAMBDA f : f \in find_log_files(w_dir, w_namespaces))
       IN log_metadata_tx' =
            log_metadata_tx
              \o transform_all([i \in 1..Len(found) |->
                                   NotifyEvent("Create", "Data", <<found[i]>>)],
                               w_namespaces, w_dir)
    /\ UNCHANGED <<w_namespaces, w_dir, w_pending, internal_rx, w_ctx, w_ops>>
    /\ UNCHANGED otherThanWatch

\* setup_notify_watcher: the permitted files, then the directory.
SetupNotifyWatcher ==
    /\ w_pc = "setup"
    /\ w_watched' = find_log_files(w_dir, w_namespaces) \cup {Directory}
    /\ w_pc' = "listen"
    /\ UNCHANGED <<w_namespaces, w_dir, w_pending, internal_rx, log_metadata_tx,
                   w_ctx, w_ops>>
    /\ UNCHANGED otherThanWatch

\* The file system: a file is created, grows, or is removed.
FsCreate ==
    /\ w_pc # "idle"
    /\ Len(w_ops) < MaxOps
    /\ \E f \in FileNames :
         /\ w_dir[f] = Absent
         /\ w_dir' = [w_dir EXCEPT ![f] = 0]
         /\ w_pending' = IF w_pc = "listen"
                           THEN w_pending \o RawEvents("Create", f, w_watched)
                           ELSE w_pending
         /\ w_ops' = Append(w_ops, [op |-> "create", path |-> f, notified |-> w_pc = "listen"])
    /\ UNCHANGED <<w_pc, w_namespaces, w_watched, internal_rx, log_metadata_tx, w_ctx>>
    /\ UNCHANGED otherThanWatch

FsModify ==
    /\ w_pc # "idle"
    /\ Len(w_ops) < MaxOps
    /\ \E f \in FileNames :
         /\ w_dir[f] \notin {Absent, Denied}
         /\ w_dir[f] < MaxSize
         /\ w_dir' = [w_dir EXCEPT ![f] = w_dir[f] + 1]
         /\ w_pending' = IF w_pc = "listen"
                           THEN w_pending \o RawEvents("Modify", f, w_watched)
                           ELSE w_pending
         /\ w_ops' = Append(w_ops, [op |-> "modify", path |-> f, notified |-> w_pc = "listen"])
    /\ UNCHANGED <<w_pc, w_namespaces, w_watched, internal_rx, log_metadata_tx, w_ctx>>
    /\ UNCHANGED otherThanWatch

FsRemove ==
    /\ w_pc # "idle"
    /\ Len(w_ops) < MaxOps
    /\ \E f \in FileNames :
         /\ w_dir[f] # Absent
         /\ w_dir' = [w_dir EXCEPT ![f] = Absent]
         /\ w_pending' = IF w_pc = "listen"
                           THEN w_pending \o RawEvents("Remove", f, w_watched)
                           ELSE w_pending
         /\ w_ops' = Append(w_ops, [op |-> "remove", path |-> f, notified |-> w_pc = "listen"])
    /\ UNCHANGED <<w_pc, w_namespaces, w_watched, internal_rx, log_metadata_tx, w_ctx>>
    /\ UNCHANGED otherThanWatch

\* rename(f, g): the file keeps its content under its new name.
FsRename ==
    /\ w_pc # "idle"
    /\ Len(w_ops) < MaxOps
    /\ \E f, g \in FileNames :
         /\ w_dir[f] \notin {Absent, Denied}
         /\ w_dir[g] = Absent
         /\ w_dir' = [w_dir EXCEPT ![f] = Absent, ![g] = w_dir[f]]
         /\ \E evs \in RenameEvents(f, g, w_watched) :
               w_pending' = IF w_pc = "listen" THEN w_pending \o evs ELSE w_pending
         /\ w_ops' = Append(w_ops, [op |-> "rename", path |-> f, to |-> g, notified |-> w_pc = "listen"])
    /\ UNCHANGED <<w_pc, w_namespaces, w_watched, internal_rx, log_metadata_tx, w_ctx>>
    /\ UNCHANGED otherThanWatch

\* The file loses its read permission: notify reports a change of the file,
\* and File::open fails from now on.
FsDeny ==
    /\ w_pc # "idle"
    /\ Len(w_ops) < MaxOps
    /\ \E f \in FileNames :
         /\ w_dir[f] \notin {Absent, Denied}
         /\ w_dir' = [w_dir EXCEPT ![f] = Denied]
         /\ w_pending' = IF w_pc = "listen"
                           THEN w_pending \o RawEvents("Modify", f, w_watched)
                           ELSE w_pending
         /\ w_ops' = Append(w_ops, [op |-> "deny", path |-> f, notified |-> w_pc = "listen"])
    /\ UNCHANGED <<w_pc, w_namespaces, w_watched, internal_rx, log_metadata_tx, w_ctx>>
    /\ UNCHANGED otherThanWatch

\* The debouncer reports errors instead of events: handle_debounced_events
\* turns them into a batch of Err entries, sent on the internal channel.
DebouncerError ==
    /\ w_pc = "listen"
    /\ Len(w_ops) < MaxOps
    /\ internal_rx' = Append(internal_rx, <<WatchErr("UNKNOWN")>>)
    /\ w_ops' = Append(w_ops, [op |-> "error", path |-> Directory, notified |-> TRUE])
    /\ UNCHANGED <<w_pc, w_namespaces, w_dir, w_watched, w_pending, log_metadata_tx, w_ctx>>
    /\ UNCHANGED otherThanWatch

\* The debouncer's timer fires: its callback turns the events of the window
\* into one batch and sends it on the internal channel.
DebouncerCallback ==
    /\ w_pc = "listen"
    /\ w_pending # <<>>
    /\ internal_rx' = Append(internal_rx,
                             handle_debounced_events(w_pending, w_namespaces, w_dir))
    /\ w_pending' = <<>>
    /\ UNCHANGED <<w_pc, w_namespaces, w_dir, w_watched, log_metadata_tx, w_ctx, w_ops>>
    /\ UNCHANGED otherThanWatch

\* listen_for_changes, select! branch internal_rx.recv(): every event of the
\* batch updates the watch list and is sent on log_metadata_tx.
ListenRecv ==
    /\ w_pc = "listen"
    /\ internal_rx # <<>>
    /\ LET metadata_events == Head(internal_rx)
       IN /\ w_watched' = update_watcher_all(metadata_events, w_watched, w_dir)
          /\ log_metadata_tx' = log_metadata_tx \o metadata_events
    /\ internal_rx' = Tail(internal_rx)
    /\ UNCHANGED <<w_pc, w_namespaces, w_dir, w_pending, w_ctx, w_ops>>
    /\ UNCHANGED otherThanWatch

\* The server shuts down.
WatchCancel ==
    /\ w_pc # "idle"
    /\ ~w_ctx
    /\ w_ctx' = TRUE
    /\ UNCHANGED <<w_pc, w_namespaces, w_dir, w_watched, w_pending, internal_rx,
                   log_metadata_tx, w_ops>>
    /\ UNCHANGED otherThanWatch

\* A cancelled branch that breaks out of the loop without the terminal error.
ListenCancelledMutant ==
    /\ w_pc = "listen"
    /\ w_ctx
    /\ w_pc' = "stopped"
    /\ w_watched' = {}
    /\ w_pending' = <<>>
    /\ UNCHANGED <<w_namespaces, w_dir, internal_rx, log_metadata_tx, w_ctx, w_ops>>
    /\ UNCHANGED otherThanWatch

\* listen_for_changes, select! branch ctx.cancelled(): the terminal error,
\* then debouncer.stop().
ListenCancelled ==
    /\ w_pc = "listen"
    /\ w_ctx
    /\ log_metadata_tx' = Append(log_metadata_tx, WatchErr("UNAVAILABLE"))
    /\ w_pc' = "stopped"
    /\ w_watched' = {}
    /\ w_pending' = <<>>
    /\ UNCHANGED <<w_namespaces, w_dir, internal_rx, w_ctx, w_ops>>
    /\ UNCHANGED otherThanWatch

NextWatch ==
    \/ SetupNotifyWatcher
    \/ FsCreate
    \/ FsModify
    \/ FsRemove
    \/ FsRename
    \/ FsDeny
    \/ DebouncerError
    \/ DebouncerCallback
    \/ ListenRecv
    \/ WatchCancel
    \/ ListenCancelled

\* The items sent on log_metadata_tx by the step.
NewlySent == SubSeq(log_metadata_tx', Len(log_metadata_tx) + 1, Len(log_metadata_tx'))

\* The watch list after the events: every ADDED puts its file on the list,
\* every DELETED takes its file off.
RECURSIVE AddedMinusDeleted(_, _)
AddedMinusDeleted(events, watched) ==
    IF events = <<>> THEN watched
    ELSE LET ev == Head(events)
             file == LogName(ev.spec.pod_name, ev.spec.namespace, ev.spec.container_name,
                             ev.spec.container_id)
         IN AddedMinusDeleted(Tail(events),
               IF ev.ok /\ ev.type = "ADDED" THEN watched \cup {file}
               ELSE IF ev.ok /\ ev.type = "DELETED" THEN watched \ {file}
               ELSE watched)

\* The same, with an ADDED counting only when its file is there and can be
\* read at the time, so that the watch call succeeds.
RECURSIVE WatchedMinusDeleted(_, _)
WatchedMinusDeleted(events, watched) ==
    IF events = <<>> THEN watched
    ELSE LET ev == Head(events)
             file == LogName(ev.spec.pod_name, ev.spec.namespace, ev.spec.container_name,
                             ev.spec.container_id)
         IN WatchedMinusDeleted(Tail(events),
               IF ev.ok /\ ev.type = "ADDED" /\ w_dir[file] \notin {Absent, Denied}
                 THEN watched \cup {file}
               ELSE IF ev.ok /\ ev.type = "DELETED" THEN watched \ {file}
               ELSE watched)

MaxTermLen == 3     \* bytes of the inner reader
MaxTermReads == 3   \* read calls
MaxTermBuf == 2     \* length of the buffer handed to read

TermSources == UNION {[1..n -> {"a", NL}] : n \in 0..MaxTermLen}

IdleTerm ==
    /\ tm_pc = "idle"
    /\ tm_src = <<>>
    /\ tm_pos = 0
    /\ tm_ctx = FALSE
    /\ tm_log = <<>>

\* TermReader::new(ctx, inner)
InitTerm ==
    /\ tm_pc = "open"
    /\ tm_src \in TermSources
    /\ tm_pos = 0
    /\ tm_ctx = FALSE
    /\ tm_log = <<>>

\* What inner.read(buf) may return for a buffer of k bytes: 0 at the end of
\* the source, else any count up to what fits and what is left.
InnerReadSizes(k) ==
    IF tm_pos = Len(tm_src) THEN {0} ELSE 1..Min2(k, Len(tm_src) - tm_pos)

\* A read that does not look at the token.
TermReader_readMutant(cancelled, inner_n) == [n |-> inner_n, polled |-> TRUE]

\* TermReader::read: 0 when the token is cancelled, without a call of the
\* inner reader; else self.inner.read(buf).
TermReader_read(cancelled, inner_n) ==
    IF cancelled THEN [n |-> 0, polled |-> FALSE] ELSE [n |-> inner_n, polled |-> TRUE]

\* A call of read with a buffer of k bytes.
TermRead ==
    /\ tm_pc = "open"
    /\ Len(tm_log) < MaxTermReads
    /\ \E k \in 1..MaxTermBuf :
         \E inner_n \in InnerReadSizes(k) :
            LET r == TermReader_read(tm_ctx, inner_n)
                after == IF r.polled THEN tm_pos + inner_n ELSE tm_pos
            IN /\ tm_pos' = after
               /\ tm_log' = Append(tm_log,
                                   [cancelled |-> tm_ctx, n |-> r.n, inner_n |-> inner_n,
                                    data |-> SubSeq(tm_src, tm_pos + 1, tm_pos + r.n),
                                    before |-> tm_pos, after |-> after])
    /\ UNCHANGED <<tm_pc, tm_src, tm_ctx, otherThanTerm>>

\* ctx.cancel()
TermCancel ==
    /\ tm_pc = "open"
    /\ ~tm_ctx
    /\ tm_ctx' = TRUE
    /\ UNCHANGED <<tm_pc, tm_src, tm_pos, tm_log, otherThanTerm>>

NextTerm ==
    \/ TermRead
    \/ TermCancel

\* C32: a read of TermReader made while the token is cancelled returns 0 and
\* leaves the inner reader where it is; any other read returns exactly what
\* the inner reader returns; after a read that returned 0 because of the
\* cancellation every later read returns 0 and delivers no byte.
C32_TermReaderStopsAtCancellation ==
    \A i \in 1..Len(tm_log) :
        /\ tm_log[i].cancelled
              => (tm_log[i].n = 0 /\ tm_log[i].after = tm_log[i].before)
        /\ ~tm_log[i].cancelled
              => /\ tm_log[i].n = tm_log[i].inner_n
                 /\ tm_log[i].after = tm_log[i].before + tm_log[i].inner_n
                 /\ tm_log[i].data
                       = SubSeq(tm_src, tm_log[i].before + 1, tm_log[i].after)
        /\ \A j \in (i + 1)..Len(tm_log) :
              tm_log[i].cancelled => (tm_log[j].n = 0 /\ tm_log[j].data = <<>>)

\* A read delivered a byte, the token was cancelled with bytes left, and two
\* more reads returned 0 without moving the inner reader.
C32_Witness ==
    /\ Len(tm_log) = 3
    /\ tm_log[1].n = 1
    /\ tm_log[2].cancelled /\ tm_log[2].n = 0
    /\ tm_log[3].cancelled /\ tm_log[3].n = 0
    /\ tm_pos = 1
    /\ Len(tm_src) = MaxTermLen

\* ---- LogMetadataImpl::list ----

\* logs_dir is not a directory.
NoDirectory == <<>>

\* The directories of the List requests.
ListDirs == [FileNames -> {Absent, Denied, 0, MaxSize}] \cup {NoDirectory}

\* request.namespaces
ListRequests == {<<>>, <<"a">>, <<"">>, <<"", "b">>, <<"a", "b">>}

\* The order in which read_dir yields the entries.
DirOrder == <<LogName("p", "b", "c", "2"), <<"notes", ".txt">>, LogName("p", "a", "c", "1")>>

\* An item of the response.
LogMetadata(spec, size) == [id |-> spec.container_id, spec |-> spec, size |-> size]

NotSeen == 0 - 3

IdleList ==
    /\ ls_pc = "idle"
    /\ ls_dir = NoDirectory
    /\ ls_req = <<>>
    /\ ls_namespaces = <<>>
    /\ ls_todo = <<>>
    /\ ls_items = <<>>
    /\ ls_status = ""
    /\ ls_seen = [f \in FileNames |-> NotSeen]

\* A List request arrives.
InitList ==
    /\ ls_pc = "start"
    /\ ls_dir \in ListDirs
    /\ ls_req \in ListRequests
    /\ ls_namespaces = <<>>
    /\ ls_todo = <<>>
    /\ ls_items = <<>>
    /\ ls_status = ""
    /\ ls_seen = [f \in FileNames |-> NotSeen]

\* request.namespaces.into_iter().filter(|namespace| !namespace.is_empty())
\* kept as it is.
filter_namespacesMutant(namespaces) == namespaces

\* request.namespaces.into_iter().filter(|namespace| !namespace.is_empty())
filter_namespaces(namespaces) == SelectSeq(namespaces, LAMBDA namespace : namespace # "")

\* list, up to read_dir: the directory test, the namespaces, the
\* authorization (its outcome is the control plane's), the directory stream.
ListStart ==
    /\ ls_pc = "start"
    /\ IF ls_dir = NoDirectory
         THEN /\ ls_status' = "NOT_FOUND"
              /\ ls_pc' = "done"
              /\ UNCHANGED <<ls_namespaces, ls_todo>>
         ELSE /\ ls_namespaces' = filter_namespaces(ls_req)
              /\ \E allowed \in BOOLEAN :
                    IF allowed
                      THEN /\ ls_todo' = SelectSeq(DirOrder, LAMBDA f : ls_dir[f] # Absent)
                           /\ ls_pc' = "scan"
                           /\ UNCHANGED ls_status
                      ELSE /\ ls_status' = DeniedStatus("list", "").code
                           /\ ls_pc' = "done"
                           /\ UNCHANGED ls_todo
    /\ UNCHANGED <<ls_dir, ls_req, ls_items, ls_seen, otherThanList>>

\* One turn of `while let Some(file) = files.next().await`.
ListEntry ==
    /\ ls_pc = "scan"
    /\ ls_todo # <<>>
    /\ LET file == Head(ls_todo)
           metadata_spec == get_log_metadata_spec(file, ls_namespaces)
           file_info == get_file_info(ls_dir, file)
       IN /\ ls_todo' = Tail(ls_todo)
          /\ IF ~metadata_spec.some
               THEN UNCHANGED <<ls_pc, ls_items, ls_status, ls_seen>>
               ELSE /\ ls_seen' = [ls_seen EXCEPT ![file] = ls_dir[file]]
                    /\ IF file_info.ok
                         THEN /\ ls_items' = Append(ls_items,
                                                    LogMetadata(metadata_spec, file_info.size))
                              /\ UNCHANGED <<ls_pc, ls_status>>
                         ELSE IF file_info.kind = "NotFound"
                                THEN UNCHANGED <<ls_pc, ls_items, ls_status>>
                                ELSE /\ ls_status' = io_error_status(file_info.kind).type
                                     /\ ls_pc' = "done"
                                     /\ UNCHANGED ls_items
    /\ UNCHANGED <<ls_dir, ls_req, ls_namespaces, otherThanList>>

\* The stream is at its end: Ok(Response::new(LogMetadataList { items })).
ListReturn ==
    /\ ls_pc = "scan"
    /\ ls_todo = <<>>
    /\ ls_status' = "OK"
    /\ ls_pc' = "done"
    /\ UNCHANGED <<ls_dir, ls_req, ls_namespaces, ls_todo, ls_items, ls_seen, otherThanList>>

\* A file is removed while the scan runs.
ListFsRemove ==
    /\ ls_pc = "scan"
    /\ \E f \in FileNames :
         /\ ls_dir[f] # Absent
         /\ ls_dir' = [ls_dir EXCEPT ![f] = Absent]
    /\ UNCHANGED <<ls_pc, ls_req, ls_namespaces, ls_todo, ls_items, ls_status, ls_seen,
                   otherThanList>>

NextList ==
    \/ ListStart
    \/ ListEntry
    \/ ListReturn
    \/ ListFsRemove

\* The files a successful List observed: those of the directory whose name
\* is a log file's, whose namespace is in the set (any, when the set is
\* empty) and which were there when the scan came to them.
ObservedFiles(namespaceSet) ==
    {f \in FileNames :
        /\ captures(f).some
        /\ namespaceSet = {} \/ captures(f).namespace \in namespaceSet
        /\ ls_seen[f] \notin {NotSeen, Absent}}

\* The files of the directory a request for the set is about.
RequestedFiles(namespaceSet) ==
    {f \in FileNames :
        /\ captures(f).some
        /\ namespaceSet = {} \/ captures(f).namespace \in namespaceSet
        /\ ls_dir[f] # Absent}

\* The request's namespace set.
RequestSet == {ls_req[i] : i \in 1..Len(ls_req)}

\* The response has exactly one item for each file of S, with the parsed
\* container id and spec and the size the scan saw, and no other item.
OneItemEach(S) ==
    /\ Len(ls_items) = Cardinality(S)
    /\ \A f \in S :
          \E i \in 1..Len(ls_items) :
              ls_items[i] = [id |-> captures(f).container_id, spec |-> captures(f),
                             size |-> ls_seen[f]]

\* C26: a List that succeeds returns exactly one item for each file whose
\* name is a log file's and whose namespace is in the request's namespace
\* set (every namespace when the set is empty), with the parsed container id
\* and the file's size; other files give no item.
C26_ListReturnsPermittedFiles ==
    (ls_pc = "done" /\ ls_status = "OK") =>
        /\ OneItemEach(ObservedFiles(RequestSet))
        /\ RequestedFiles(RequestSet) \subseteq ObservedFiles(RequestSet)

\* C26 amended: the namespace set is the request's without the empty
\* string; a request of empty strings only is a request for every
\* namespace.
C26_Amended ==
    (ls_pc = "done" /\ ls_status = "OK") =>
        /\ OneItemEach(ObservedFiles(RequestSet \ {""}))
        /\ RequestedFiles(RequestSet \ {""}) \subseteq ObservedFiles(RequestSet \ {""})

\* A request for namespace "b" and the empty string on a directory of three
\* files succeeded with one item: the file of "b" with its size.
C26_Witness ==
    /\ ls_pc = "done"
    /\ ls_status = "OK"
    /\ ls_req = <<"", "b">>
    /\ \A f \in FileNames : ls_dir[f] = MaxSize
    /\ ls_items = <<LogMetadata(captures(LogName("p", "b", "c", "2")), MaxSize)>>

\* ---- deduplicate_metadata_events on its own ----

MaxBatch == 4       \* entries of a batch

\* The entries of the batches: three Ok events, two of them for the same file
\* with different types, and two different errors.
BatchEntries ==
    {WatchEvent("ADDED", captures(LogName("p", "a", "c", "1")), 0),
     WatchEvent("MODIFIED", captures(LogName("p", "a", "c", "1")), 0),
     WatchEvent("MODIFIED", captures(LogName("p", "b", "c", "2")), 1),
     WatchErr("PERMISSION_DENIED"),
     WatchErr("UNKNOWN")}

Batches == UNION {[1..n -> BatchEntries] : n \in 0..MaxBatch}

IdleDedup ==
    /\ dd_pc = "idle"
    /\ dd_in = <<>>
    /\ dd_out = <<>>
    /\ dd_out2 = <<>>

InitDedup ==
    /\ dd_pc = "batch"
    /\ dd_in \in Batches
    /\ dd_out = <<>>
    /\ dd_out2 = <<>>

\* deduplicate_metadata_events(metadata_events)
Dedup ==
    /\ dd_pc = "batch"
    /\ dd_out' = deduplicate_metadata_events(dd_in)
    /\ dd_pc' = "once"
    /\ UNCHANGED <<dd_in, dd_out2, otherThanDedup>>

\* deduplicate_metadata_events applied to its own result.
DedupAgain ==
    /\ dd_pc = "once"
    /\ dd_out2' = deduplicate_metadata_events(dd_out)
    /\ dd_pc' = "twice"
    /\ UNCHANGED <<dd_in, dd_out, otherThanDedup>>

NextDedup ==
    \/ Dedup
    \/ DedupAgain

\* The entries of b at the indices of S, in the order of b.
RECURSIVE SubSeqAt(_, _, _)
SubSeqAt(b, S, i) ==
    IF i > Len(b) THEN <<>>
    ELSE (IF i \in S THEN <<b[i]>> ELSE <<>>) \o SubSeqAt(b, S, i + 1)

\* The indices of a batch that hold an Err or the latest occurrence of an
\* Ok event.
LatestIdx(b) ==
    {i \in 1..Len(b) : ~b[i].ok \/ \A j \in (i + 1)..Len(b) : b[j] # b[i]}

\* C21: the result is the batch without every Ok event that has an equal Ok
\* event later in the batch: each distinct Ok event once, at the place of
\* its latest occurrence, every Err kept, the input order kept.
C21_DedupKeepsLatestOccurrence ==
    dd_pc \in {"once", "twice"} =>
        /\ dd_out = SubSeqAt(dd_in, LatestIdx(dd_in), 1)
        /\ \A i, j \in 1..Len(dd_out) :
              (i # j /\ dd_out[i].ok) => dd_out[i] # dd_out[j]
        /\ \A i \in 1..Len(dd_in) : \E j \in 1..Len(dd_out) : dd_out[j] = dd_in[i]

\* A batch e, f, Err, e with two different Ok events e and f was
\* deduplicated to f, Err, e.
C21_Witness ==
    /\ dd_pc = "once"
    /\ Len(dd_in) = 4
    /\ dd_in[1].ok /\ dd_in[2].ok /\ ~dd_in[3].ok
    /\ dd_in[1] # dd_in[2]
    /\ dd_in[4] = dd_in[1]
    /\ dd_out = <<dd_in[2], dd_in[3], dd_in[4]>>

\* C22: deduplication applied to its own result returns it unchanged.
C22_DedupIsIdempotent ==
    dd_pc = "twice" => dd_out2 = dd_out

\* A batch with a repeated Ok event and a repeated Err went through both
\* applications: the first shortened it.
C22_Witness ==
    /\ dd_pc = "twice"
    /\ Len(dd_out) < Len(dd_in)
    /\ dd_out2 = dd_out
    /\ \E i, j \in 1..Len(dd_out) : i # j /\ ~dd_out[i].ok /\ dd_out[i] = dd_out[j]

\* The namespace list permits the namespace.
Permitted(namespaces, ns) == namespaces = <<>> \/ contains(namespaces, ns)

WatchQuiet == w_pc = "listen" /\ w_pending = <<>> /\ internal_rx = <<>>

\* The event the spec's table gives a path: none unless the name is that of
\* a log file of a permitted namespace.
TableEvent(type, f, size) ==
    IF get_log_metadata_spec(f, w_namespaces).some
      THEN <<WatchEvent(type, get_log_metadata_spec(f, w_namespaces), size)>>
      ELSE <<>>

\* C23: a rename of f to g seen by the watcher becomes DELETED for f and
\* ADDED for g (from the event with both paths, or from the rename-from and
\* the rename-to event), each only for a path of a permitted namespace.
C23_RenameIsDeletedThenAdded ==
    (WatchQuiet /\ Len(w_ops) = 1 /\ w_ops[1].op = "rename" /\ w_ops[1].notified) =>
        log_metadata_tx = TableEvent("DELETED", w_ops[1].path, 0)
                            \o TableEvent("ADDED", w_ops[1].to, w_dir[w_ops[1].to])

\* C24: for a create, modify or remove event of a permitted log file, a stat
\* that fails with not-found gives the event DELETED with size 0, whatever
\* the kind of the event, and a stat that fails otherwise gives an Err.
C24_StatFailureDecidesTheEvent ==
    \A i \in 1..Len(w_pending) :
        LET event == w_pending[i]
            path == Head(event.paths)
            made == transform_notify_event(event, w_namespaces, w_dir)
        IN get_log_metadata_spec(path, w_namespaces).some =>
             /\ w_dir[path] = Absent =>
                   made = <<WatchEvent("DELETED",
                                       get_log_metadata_spec(path, w_namespaces), 0)>>
             /\ w_dir[path] = Denied =>
                   Len(made) = 1 /\ ~made[1].ok /\ made[1] # WatchErr("UNAVAILABLE")

\* The debouncer holds the Modify events of a permitted file that was
\* extended and then removed: stat fails with not-found for an event that is
\* not a Remove.
C24_Witness ==
    /\ w_pc = "listen"
    /\ Len(w_ops) = 2
    /\ w_ops[1].op = "modify" /\ w_ops[1].notified
    /\ w_ops[2].op = "remove" /\ w_ops[2].path = w_ops[1].path
    /\ \E i \in 1..Len(w_pending) :
          /\ w_pending[i].kind = "Modify"
          /\ w_dir[Head(w_pending[i].paths)] = Absent
          /\ transform_notify_event(w_pending[i], w_namespaces, w_dir)
                = <<WatchEvent("DELETED", captures(Head(w_pending[i].paths)), 0)>>

\* C25: the watcher sends no event before a file changes under its watch,
\* and never ADDED for a file it did not see created; a file that was there
\* when it started and is then extended gives exactly one MODIFIED event
\* with the new size.
C25_PreExistingFileGivesOnlyModified ==
    /\ (\A i \in 1..Len(w_ops) : ~w_ops[i].notified) =>
          \A i \in 1..Len(log_metadata_tx) : ~log_metadata_tx[i].ok
    /\ \A i \in 1..Len(log_metadata_tx) :
          (log_metadata_tx[i].ok /\ log_metadata_tx[i].type = "ADDED") =>
              \E j \in 1..Len(w_ops) :
                  /\ w_ops[j].op = "create"
                  /\ w_ops[j].notified
                  /\ captures(w_ops[j].path) = log_metadata_tx[i].spec
    /\ (WatchQuiet /\ Len(w_ops) = 1 /\ w_ops[1].op = "modify" /\ w_ops[1].notified) =>
          log_metadata_tx = TableEvent("MODIFIED", w_ops[1].path, w_dir[w_ops[1].path])

\* A permitted file that was there at the start was extended once while the
\* watcher listened, and the one MODIFIED event with size 1 was sent.
C25_Witness ==
    /\ WatchQuiet
    /\ Len(w_ops) = 1
    /\ w_ops[1].op = "modify"
    /\ w_ops[1].notified
    /\ w_ops[1].path \in w_watched
    /\ log_metadata_tx = <<WatchEvent("MODIFIED", captures(w_ops[1].path), 1)>>

\* C27: an Err item is the last item the watcher sends: every item before
\* the last is an Ok event.
C27_ErrIsTerminal ==
    \A i \in 1..(Len(log_metadata_tx) - 1) : log_metadata_tx[i].ok

\* Number of terminal UNAVAILABLE errors on the watcher's outbound channel.
WatchUnavailableCount ==
    Cardinality({i \in 1..Len(log_metadata_tx) :
                    log_metadata_tx[i] = WatchErr("UNAVAILABLE")})

\* C11: the watcher that is cancelled in its event loop sends exactly one
\* Err(UNAVAILABLE), stops the debouncer and returns; the error is the last
\* item it sends.  No error is sent while the token is not cancelled.
C11_WatcherCancelSendsOneUnavailable ==
    /\ WatchUnavailableCount <= 1
    /\ WatchUnavailableCount = 1 =>
          /\ w_ctx
          /\ w_pc = "stopped"
          /\ Last(log_metadata_tx) = WatchErr("UNAVAILABLE")
    /\ w_pc = "stopped" =>
          /\ WatchUnavailableCount = 1
          /\ w_watched = {}
          /\ w_pending = <<>>

\* The watcher has sent events, was cancelled in its loop and has returned.
C11_Witness ==
    /\ w_pc = "stopped"
    /\ w_ctx
    /\ Len(log_metadata_tx) >= 2
    /\ log_metadata_tx[1].ok
    /\ Last(log_metadata_tx) = WatchErr("UNAVAILABLE")

----------------------------------------------------------------------------
(* cluster_agent/log_records.rs: the StreamForward and StreamBackward      *)
(* handlers and the tasks they spawn                                       *)

\* Bounds of the service model.
MaxSvcStreams == 2      \* streaming tasks spawned

RootToken == 0          \* self.ctx, the token main cancels at shutdown

\* A clone of the parent token instead of a child.
child_tokenMutant(parent, fresh) == parent

\* CancellationToken::child_token: a new token below parent.
child_token(parent, fresh) == fresh

\* CancellationToken::is_cancelled: the token or its parent was cancelled.
is_cancelled(token) == token \in svc_cancelled \/ RootToken \in svc_cancelled

\* get_log_filename: fs::canonicalize(path), NotFound when it fails.
get_log_filename(exists) ==
    IF exists THEN [ok |-> TRUE, code |-> "OK"] ELSE [ok |-> FALSE, code |-> "NOT_FOUND"]

\* The statements of stream_forward / stream_backward before the spawn:
\*   let authorizer = Authorizer::new(request.metadata()).await?;
\*   let file_path = self.get_log_filename(&request)?;
\*   authorizer.is_authorized(&namespaces, "list").await?;
\* sar is what the control plane answers if it is asked.
stream_handler(token, namespace, exists, sar) ==
    LET file_path == get_log_filename(exists)
    IN IF ~file_path.ok
         THEN [code |-> file_path.code, steps |-> <<"get_log_filename">>]
         ELSE LET r == AuthLoop({}, hash_token(token), <<namespace>>, "list",
                                <<sar>>, 0, <<>>)
              IN [code |-> r.status.code,
                  steps |-> <<"get_log_filename", "is_authorized">>]

NoSvcCall == [rpc |-> "", exists |-> FALSE, sar |-> "", code |-> "", steps |-> <<>>]

IdleSvc ==
    /\ svc_cancelled = {}
    /\ svc_streams = <<>>
    /\ svc_last = NoSvcCall
    /\ svc_shutdown = FALSE

\* LogRecordsImpl::new(ctx, task_tracker, logs_dir)
InitSvc ==
    /\ svc_cancelled = {}
    /\ svc_streams = <<>>
    /\ svc_last = NoSvcCall
    /\ svc_shutdown = FALSE

\* LogRecordsImpl::stream_forward / stream_backward: the handler, up to its
\* response. follow is follow_from() # Noop.
SvcStreamCall ==
    /\ \E r \in {"StreamForward", "StreamBackward"}, exists \in BOOLEAN,
          sar \in SarOutcomes, token \in Tokens :
       \E follow \in IF r = "StreamForward" THEN BOOLEAN ELSE {FALSE} :
          LET namespace == CHOOSE ns \in Namespaces : TRUE
              h == stream_handler(token, namespace, exists, sar)
          IN /\ svc_last' = [rpc |-> r, exists |-> exists, sar |-> sar,
                             code |-> h.code, steps |-> h.steps]
             /\ IF h.code = "OK"
                  THEN /\ Len(svc_streams) < MaxSvcStreams
                       /\ svc_streams' = Append(svc_streams,
                             [local_ctx |-> child_token(RootToken, Len(svc_streams) + 1),
                             follow |-> follow,
                             pc |-> "scan", pending |-> FALSE,
                             unavailable |-> FALSE, rx_dropped |-> FALSE])
                  ELSE UNCHANGED svc_streams
    /\ UNCHANGED <<svc_cancelled, svc_shutdown>>
    /\ UNCHANGED otherThanSvc

\* process_output: sender.blocking_send(Ok(record)), and ctx.cancel() when
\* the receiver is gone: the tokens the call cancels.
SvcSend(s) == IF s.rx_dropped THEN {s.local_ctx} ELSE {}

\* The initial scan of stream i: TermReader returns 0 once the token is
\* cancelled and the task returns; else either the next line of the file
\* goes to process_output, or the file is at its end and the task returns,
\* or goes on to listen_for_changes when the stream follows.
SvcScan(i) ==
    /\ i \in 1..Len(svc_streams)
    /\ svc_streams[i].pc = "scan"
    /\ LET s == svc_streams[i]
       IN IF is_cancelled(s.local_ctx)
            THEN /\ svc_streams' = [svc_streams EXCEPT ![i].pc = "stopped"]
                 /\ UNCHANGED svc_cancelled
            ELSE \E more \in BOOLEAN :
                    IF more
                      THEN /\ svc_cancelled' = svc_cancelled \cup SvcSend(s)
                           /\ UNCHANGED svc_streams
                      ELSE /\ svc_streams' = [svc_streams EXCEPT
                                  ![i].pc = IF s.follow THEN "tail" ELSE "stopped"]
                           /\ UNCHANGED svc_cancelled
    /\ UNCHANGED <<svc_last, svc_shutdown>>
    /\ UNCHANGED otherThanSvc

\* The container runtime appends a line to the file of stream i and notify
\* queues a Modify event; pending says that output_rx holds an event.
SvcAppend(i) ==
    /\ i \in 1..Len(svc_streams)
    /\ svc_streams[i].pc = "tail"
    /\ ~svc_streams[i].pending
    /\ svc_streams' = [svc_streams EXCEPT ![i].pending = TRUE]
    /\ UNCHANGED <<svc_cancelled, svc_last, svc_shutdown>>
    /\ UNCHANGED otherThanSvc

\* listen_for_changes, branch `ev = fs_watcher.output_rx.recv()`: the lines
\* loop breaks out of the outer loop when the token is cancelled, else the
\* new line goes to process_output.
SvcTailEvent(i) ==
    /\ i \in 1..Len(svc_streams)
    /\ svc_streams[i].pc = "tail"
    /\ svc_streams[i].pending
    /\ LET s == svc_streams[i]
       IN IF is_cancelled(s.local_ctx)
            THEN /\ svc_streams' = [svc_streams EXCEPT ![i].pc = "stopped"]
                 /\ UNCHANGED svc_cancelled
            ELSE /\ svc_streams' = [svc_streams EXCEPT ![i].pending = FALSE]
                 /\ svc_cancelled' = svc_cancelled \cup SvcSend(s)
    /\ UNCHANGED <<svc_last, svc_shutdown>>
    /\ UNCHANGED otherThanSvc

\* listen_for_changes, branch `_ = ctx.cancelled()`: the UNAVAILABLE status
\* is sent (`let _ =`: a send to a dropped receiver is ignored) and the
\* task returns, dropping the FsWatcher with its file and notify handles.
SvcTailCancelled(i) ==
    /\ i \in 1..Len(svc_streams)
    /\ svc_streams[i].pc = "tail"
    /\ is_cancelled(svc_streams[i].local_ctx)
    /\ svc_streams' = [svc_streams EXCEPT
          ![i].pc = "stopped",
          ![i].unavailable = ~svc_streams[i].rx_dropped]
    /\ UNCHANGED <<svc_cancelled, svc_last, svc_shutdown>>
    /\ UNCHANGED otherThanSvc

\* The client drops the response stream of stream i: the ReceiverStream and
\* with it the receiver of the channel are dropped.
SvcDisconnect(i) ==
    /\ i \in 1..Len(svc_streams)
    /\ ~svc_streams[i].rx_dropped
    /\ svc_streams' = [svc_streams EXCEPT ![i].rx_dropped = TRUE]
    /\ UNCHANGED <<svc_cancelled, svc_last, svc_shutdown>>
    /\ UNCHANGED otherThanSvc

\* Shutdown: main cancels the process-wide token.
SvcShutdown ==
    /\ ~svc_shutdown
    /\ svc_shutdown' = TRUE
    /\ svc_cancelled' = svc_cancelled \cup {RootToken}
    /\ UNCHANGED <<svc_streams, svc_last>>
    /\ UNCHANGED otherThanSvc

\* The steps of the spawned tasks.
SvcTaskStep ==
    \E i \in 1..MaxSvcStreams : SvcScan(i) \/ SvcTailEvent(i) \/ SvcTailCancelled(i)

NextSvc ==
    \/ SvcStreamCall
    \/ \E i \in 1..MaxSvcStreams : SvcScan(i)
    \/ \E i \in 1..MaxSvcStreams : SvcAppend(i)
    \/ \E i \in 1..MaxSvcStreams : SvcTailEvent(i)
    \/ \E i \in 1..MaxSvcStreams : SvcTailCancelled(i)
    \/ \E i \in 1..MaxSvcStreams : SvcDisconnect(i)
    \/ SvcShutdown

\* C38: for a caller whose token is not authorized for the requested
\* namespace, StreamForward and StreamBackward answer the same whether or
\* not the log file exists: the status of a call the control plane refuses
\* is the status the same call gets with the file there when it is missing,
\* and missing when it is there, and is_authorized has run before the answer.
C38_RefusalIndependentOfFile ==
    (svc_last.rpc # "" /\ svc_last.sar # "allow") =>
        /\ \A token \in Tokens, namespace \in Namespaces :
              svc_last.code =
                 stream_handler(token, namespace, ~svc_last.exists, svc_last.sar).code
        /\ svc_last.steps[Len(svc_last.steps)] = "is_authorized"

\* C39: when the client drops the receiving end of a following forward
\* stream, the streaming task eventually stops (and with it drops its file
\* and watcher handles), whatever the file and the server do.
C39_DisconnectStopsFollowingStream ==
    \A i \in 1..MaxSvcStreams :
        (IF i <= Len(svc_streams)
           THEN svc_streams[i].follow /\ svc_streams[i].rx_dropped
           ELSE FALSE)
        ~> (IF i <= Len(svc_streams) THEN svc_streams[i].pc = "stopped" ELSE FALSE)

\* C40: a client disconnect on one record stream cancels only the token of
\* that stream: the process-wide token is cancelled by shutdown only, the
\* token of a stream is cancelled only after its own client has gone, so a
\* stream whose client is there and whose server is not shutting down is
\* never cancelled; and the handlers go on serving requests.
C40_DisconnectCancelsOwnTokenOnly ==
    /\ RootToken \in svc_cancelled => svc_shutdown
    /\ \A i \in 1..Len(svc_streams) :
          LET s == svc_streams[i]
          IN /\ s.local_ctx \in svc_cancelled => s.rx_dropped
             /\ is_cancelled(s.local_ctx) => (s.rx_dropped \/ svc_shutdown)
             /\ s.unavailable => svc_shutdown
    /\ svc_cancelled \subseteq {RootToken} \cup {svc_streams[i].local_ctx : i \in 1..Len(svc_streams)}

\* Witness of C40: the first stream lost its client, its send failed and
\* cancelled its token; the second stream, spawned later, is following and
\* has an event to handle, its token not cancelled, and there was no shutdown.
C40_Witness ==
    /\ Len(svc_streams) = 2
    /\ svc_streams[1].rx_dropped
    /\ svc_streams[1].local_ctx \in svc_cancelled
    /\ svc_streams[1].pc = "stopped"
    /\ ~svc_streams[2].rx_dropped
    /\ svc_streams[2].pc = "tail"
    /\ svc_streams[2].pending
    /\ ~is_cancelled(svc_streams[2].local_ctx)
    /\ ~svc_shutdown

Init == InitWrap /\ InitAuth /\ IdleOff /\ IdleStream /\ IdleWatch /\ IdleTrim /\ IdleRev /\ IdleDedup /\ IdleList /\ IdleTerm /\ IdleSvc

SpecWrap == Init /\ [][NextWrap]_vars

SpecAuth == Init /\ [][NextAuth]_vars

\* A call of find_nearest_offset; everything else idle.
InitOffset == InitWrap /\ InitAuth /\ InitOff /\ IdleStream /\ IdleWatch /\ IdleTrim /\ IdleRev /\ IdleDedup /\ IdleList /\ IdleTerm /\ IdleSvc

SpecOffset == InitOffset /\ [][NextOff]_vars

InitWindowing == InitWrap /\ InitAuth /\ InitWindow /\ IdleStream /\ IdleWatch /\ IdleTrim /\ IdleRev /\ IdleDedup /\ IdleList /\ IdleTerm /\ IdleSvc

InitRanging ==
    InitWrap /\ InitAuth /\ InitRange /\ IdleStream /\ IdleWatch /\ IdleTrim /\ IdleRev
        /\ IdleDedup /\ IdleList /\ IdleTerm /\ IdleSvc

InitEmbedding ==
    InitWrap /\ InitAuth /\ InitEmbedded /\ IdleStream /\ IdleWatch /\ IdleTrim /\ IdleRev
        /\ IdleDedup /\ IdleList /\ IdleTerm /\ IdleSvc

SpecEmbedded == InitEmbedding /\ [][NextOff]_vars

SpecRange == InitRanging /\ [][NextOff]_vars

SpecWindow == InitWindowing /\ [][NextOff]_vars

\* A record stream; everything else idle.
InitStreaming ==
    InitWrap /\ InitAuth /\ IdleOff /\ InitStream /\ IdleWatch /\ IdleTrim /\ IdleRev /\ IdleDedup /\ IdleList /\ IdleTerm /\ IdleSvc

SpecStream == InitStreaming /\ [][NextStream]_vars

\* StreamForward requests with followFrom = End.
InitFollowEnd ==
    /\ InitStreaming
    /\ rpc = "StreamForward"
    /\ req_follow = "End"
    /\ Len(Lines(st_file)) <= MaxTailLines

SpecFollowEnd == InitFollowEnd /\ [][NextForward]_vars

\* A Watch session; everything else idle.
InitWatching ==
    InitWrap /\ InitAuth /\ IdleOff /\ IdleStream /\ InitWatch /\ IdleTrim /\ IdleRev /\ IdleDedup /\ IdleList /\ IdleTerm /\ IdleSvc

SpecWatch == InitWatching /\ [][NextWatch]_vars

\* A LogTrimmerReader read to its end; everything else idle.
InitTrimming ==
    InitWrap /\ InitAuth /\ IdleOff /\ IdleStream /\ IdleWatch /\ InitTrim /\ IdleRev /\ IdleDedup /\ IdleList /\ IdleTerm /\ IdleSvc

SpecTrim == InitTrimming /\ [][NextTrim]_vars

InitReversing ==
    InitWrap /\ InitAuth /\ IdleOff /\ IdleStream /\ IdleWatch /\ IdleTrim /\ InitRev /\ IdleDedup /\ IdleList /\ IdleTerm /\ IdleSvc

SpecReverse == InitReversing /\ [][NextRev]_vars

InitDeduping ==
    InitWrap /\ InitAuth /\ IdleOff /\ IdleStream /\ IdleWatch /\ IdleTrim /\ IdleRev
        /\ InitDedup /\ IdleList /\ IdleTerm /\ IdleSvc

SpecDedup == InitDeduping /\ [][NextDedup]_vars

InitListing ==
    InitWrap /\ InitAuth /\ IdleOff /\ IdleStream /\ IdleWatch /\ IdleTrim /\ IdleRev
        /\ IdleDedup /\ InitList /\ IdleTerm /\ IdleSvc

SpecTailWrites == InitFollowEnd /\ [][NextTailWrites]_vars

SpecList == InitListing /\ [][NextList]_vars

InitTermReading ==
    InitWrap /\ InitAuth /\ IdleOff /\ IdleStream /\ IdleWatch /\ IdleTrim /\ IdleRev
        /\ IdleDedup /\ IdleList /\ InitTerm /\ IdleSvc

SpecTerm == InitTermReading /\ [][NextTerm]_vars

\* The record-stream handlers and their tasks; everything else idle.
InitServing ==
    InitWrap /\ InitAuth /\ IdleOff /\ IdleStream /\ IdleWatch /\ IdleTrim /\ IdleRev
        /\ IdleDedup /\ IdleList /\ IdleTerm /\ InitSvc

SpecSvc == InitServing /\ [][NextSvc]_vars

\* The spawned tasks run whenever they can: tokio schedules a task that is
\* ready. Clients, the container runtime and shutdown are under no
\* obligation.
SpecSvcLive == InitServing /\ [][NextSvc]_vars /\ WF_vars(SvcTaskStep)

====
